---- MODULE Spec2Model ----
(***************************************************************************)
(* SEC EDGAR 8-K downloader (SEC_download.py).                             *)
(*                                                                         *)
(* Several state machines share this module, each with its own             *)
(* specification:                                                          *)
(*   SpecRL   the RateLimiter shared by concurrent threads;                *)
(*   SpecTr   one transport operation at a time (sec_get_json,             *)
(*            sec_get_text, sec_get_bytes, sec_download_file) against a    *)
(*            destination path and its '.part' sibling;                    *)
(*   SpecRun  run_download with its worker pool of download_filing tasks,  *)
(*            on a few configurations; SpecCfg, on every configuration;    *)
(*   SpecDisc the three discovery strategies: the submissions walker, the  *)
(*            paginated-listing walker and the bulk index scanner;         *)
(*   SpecWalk the paginated-listing walker alone, with fairness;           *)
(*   SpecFn   the pure functions: normalize_cik, the shard filter, the     *)
(*            targets manifest writer and reader.                          *)
(***************************************************************************)
EXTENDS Integers, Sequences, FiniteSets, TLC

VARIABLES
    \* ---- RateLimiter (SpecRL) ----
    min_interval_sec,   \* RateLimiter.min_interval_sec
    clock,              \* time.monotonic()
    rl_last,            \* RateLimiter._last
    rl_lock,            \* RateLimiter._lock: 0 = free, else the holding thread
    rl_pc,              \* per thread: position inside wait()
    rl_now,             \* per thread: local 'now'
    rl_sleep_for,       \* per thread: local 'sleep_for'
    rl_wake,            \* per thread: earliest instant time.sleep may return
    rl_calls,           \* calls of wait() made so far, all threads
    permits,            \* the instants stamped into _last, in order
    returns,            \* the instants at which wait() returned, in order
    lock_takes,         \* number of lock acquisitions
    rl_sleeps,          \* number of time.sleep calls made by wait()
    \* ---- one transport operation (SpecTr) ----
    tr_op,              \* "none", "json", "text", "bytes", "file"
    tr_pc,              \* position inside the operation
    attempt,            \* loop variable of 'for attempt in range(max_retries)'
    backoff,            \* local 'backoff'
    tr_waits,           \* rate_limiter.wait() calls made by this call
    tr_gets,            \* session.get calls made by this call
    tr_sleeps,          \* backoff sleeps made by this call
    tr_slept,           \* backoff base of the last sleep (jitter excluded)
    tr_status,          \* outcome of the last session.get: a status, or
                        \* NetFail, or NoStatus before the first one
    tr_err,             \* the exception the call raised, or NoErr
    tr_body,            \* the chunks resp.iter_content yields
    tr_written,         \* chunks consumed from tr_body so far
    fs,                 \* the file system: path -> file
    fs_parent,          \* whether target_path.parent exists
    tr_pre,             \* the destination file when the call started
    tr_calls,           \* calls made so far
    tr_prev,            \* how the previous call ended
    \* ---- run_download (SpecRun) ----
    cfg,                \* the arguments of run_download
    upstream,           \* the filings EDGAR may list during the run
    run_pc,             \* position of the main thread inside run_download
    run_err,            \* the exception run_download raised, or NoErr
    ciks10,             \* local 'ciks10'
    cidx,               \* 1-based index of the company being processed
    targets,            \* local 'targets'
    sub_targets,        \* local 'sub_targets' of the company last scanned
    sub_found,          \* 'sub_targets' before the floor was applied to it
    futs,               \* the futures of the current batch, in submission order
    ok,                 \* local 'ok'
    failed,             \* local 'failed'
    total_targets,      \* local 'total_targets'
    companies_done,     \* local 'companies_done'
    companies_failed,   \* local 'companies_failed'
    cik_failed,         \* local 'cik_failed'
    http_issued,        \* whether any HTTP request has been issued
    run_files,          \* non-empty files under out_dir, by path
    run_parts,          \* '.part' files under out_dir, by path of their target
    run_dirs,           \* directories created under out_dir
    manifest,           \* the targets manifest file: its lines, or NoManifest
    manifest_read,      \* whether the targets manifest has been read
    manifest_written,   \* whether the targets manifest has been written
    summary,            \* the dict run_download returned, or NoSummary
    \* ---- discovery (SpecDisc) ----
    ds_op,              \* "none", "submissions", "listing", "master", "scan"
    ds_pc,              \* "ready", "paging", "scanning", "done", "raised"
    ds_incl,            \* include_amendments
    ds_floor,           \* start_date
    ds_filter,          \* cik_filter
    ds_batches,         \* what EDGAR serves: the submissions record and its
                        \* pages, or one listing per form type, or the
                        \* quarterly indexes; for a scan, its years and
                        \* which index files are served
    ds_page_size,       \* page_size
    ds_form,            \* 1-based index of form_type in forms
    ds_start,           \* local 'start'
    ds_refs,            \* local 'refs' / 'out': the references before de-dup
    ds_requests,        \* the requests issued: <<batch, offset>>, in order
    ds_out,             \* the list returned
    ds_err,             \* the exception raised, or NoErr
    \* ---- pure functions (SpecFn) ----
    fn_op,              \* "none", or the function applied
    fn_args,            \* download_filing's options and the manifest found
    fn_pc,              \* "ready", "done", "raised"
    fn_cik,             \* argument of normalize_cik
    fn_refs,            \* a list of FilingRef: the targets
    fn_k,               \* K of the shard spec N/K
    fn_lines,           \* the lines of a manifest file, the rows of a page
    fn_str,             \* normalize_cik's result, and its result on that
    fn_shards,          \* the shard selections for N = 1..K
    fn_out,             \* the list the manifest reader returned
    fn_err              \* the exception raised, or NoErr

rlVars == <<min_interval_sec, clock, rl_last, rl_lock, rl_pc, rl_now,
            rl_sleep_for, rl_wake, rl_calls, permits, returns, lock_takes,
            rl_sleeps>>

trVars == <<tr_op, tr_pc, attempt, backoff, tr_waits, tr_gets, tr_sleeps,
            tr_slept, tr_status, tr_err, tr_body, tr_written, fs, fs_parent,
            tr_pre, tr_calls, tr_prev>>

runVars == <<cfg, upstream, run_pc, run_err, ciks10, cidx, targets, sub_targets,
             sub_found, futs, ok, failed,
             total_targets, companies_done, companies_failed, cik_failed,
             http_issued, run_files, run_parts, run_dirs, manifest,
             manifest_read, manifest_written, summary>>

dsVars == <<ds_op, ds_pc, ds_incl, ds_floor, ds_filter, ds_batches,
            ds_page_size, ds_form, ds_start, ds_refs, ds_requests, ds_out,
            ds_err>>

fnVars == <<fn_op, fn_args, fn_pc, fn_cik, fn_refs, fn_k, fn_lines, fn_str, fn_shards,
            fn_out, fn_err>>

vars == <<rlVars, trVars, runVars, dsVars, fnVars>>

\* Each state machine leaves the other machines' state alone.
RLOnly == UNCHANGED <<trVars, runVars, dsVars, fnVars>>
TrOnly == UNCHANGED <<rlVars, runVars, dsVars, fnVars>>
RunOnly == UNCHANGED <<rlVars, trVars, dsVars, fnVars>>
DiscOnly == UNCHANGED <<rlVars, trVars, runVars, fnVars>>
FnOnly == UNCHANGED <<rlVars, trVars, runVars, dsVars>>

(***************************************************************************)
(* Bounds                                                                  *)
(***************************************************************************)
NThreads == 2
MaxClock == 4
MaxWaitCalls == 3
MaxTrCalls == 2
MaxChunks == 2
MaxTargets == 2
MaxRows == 3
MaxPageSize == 2
MaxCikLen == 3
MaxShards == 3
MaxLines == 3

Threads == 1..NThreads
MinIntervals == {-1, 0, 2}
InitClocks == {0, 3}

(***************************************************************************)
(* RateLimiter                                                             *)
(***************************************************************************)
\* sleep_for = self.min_interval_sec - (now - self._last)
SleepForNoLast(min, now, last) == min - now

SleepFor(min, now, last) == min - (now - last)

\* if self.min_interval_sec <= 0: return
LimiterDisabled(min) == min <= 0

RLInit ==
    /\ min_interval_sec \in MinIntervals
    /\ clock \in InitClocks
    /\ rl_last = 0
    /\ rl_lock = 0
    /\ rl_pc = [t \in Threads |-> "idle"]
    /\ rl_now = [t \in Threads |-> 0]
    /\ rl_sleep_for = [t \in Threads |-> 0]
    /\ rl_wake = [t \in Threads |-> 0]
    /\ rl_calls = 0
    /\ permits = <<>>
    /\ returns = <<>>
    /\ lock_takes = 0
    /\ rl_sleeps = 0

\* Quiescent limiter, for the specifications that do not run it.
RLQuiet ==
    /\ min_interval_sec = 0
    /\ clock = 0
    /\ rl_last = 0
    /\ rl_lock = 0
    /\ rl_pc = [t \in Threads |-> "idle"]
    /\ rl_now = [t \in Threads |-> 0]
    /\ rl_sleep_for = [t \in Threads |-> 0]
    /\ rl_wake = [t \in Threads |-> 0]
    /\ rl_calls = 0
    /\ permits = <<>>
    /\ returns = <<>>
    /\ lock_takes = 0
    /\ rl_sleeps = 0

\* wait() is entered; the disabled limiter returns at once.
WaitEnter(t) ==
    /\ rl_pc[t] = "idle"
    /\ rl_calls < MaxWaitCalls
    /\ rl_calls' = rl_calls + 1
    /\ IF LimiterDisabled(min_interval_sec)
       THEN /\ returns' = Append(returns, clock)
            /\ UNCHANGED rl_pc
       ELSE /\ rl_pc' = [rl_pc EXCEPT ![t] = "acquire"]
            /\ UNCHANGED returns
    /\ UNCHANGED <<min_interval_sec, clock, rl_last, rl_lock, rl_now,
                   rl_sleep_for, rl_wake, permits, lock_takes, rl_sleeps>>
    /\ RLOnly

\* with self._lock:
WaitAcquire(t) ==
    /\ rl_pc[t] = "acquire"
    /\ rl_lock = 0
    /\ rl_lock' = t
    /\ lock_takes' = lock_takes + 1
    /\ rl_pc' = [rl_pc EXCEPT ![t] = "read"]
    /\ UNCHANGED <<min_interval_sec, clock, rl_last, rl_now, rl_sleep_for,
                   rl_wake, rl_calls, permits, returns, rl_sleeps>>
    /\ RLOnly

\* now = time.monotonic(); sleep_for = ...; if sleep_for > 0:
WaitReadNow(t) ==
    /\ rl_pc[t] = "read"
    /\ rl_now' = [rl_now EXCEPT ![t] = clock]
    /\ rl_sleep_for' = [rl_sleep_for EXCEPT
                          ![t] = SleepFor(min_interval_sec, clock, rl_last)]
    /\ rl_pc' = [rl_pc EXCEPT
                   ![t] = IF SleepFor(min_interval_sec, clock, rl_last) > 0
                          THEN "sleep" ELSE "stamp"]
    /\ UNCHANGED <<min_interval_sec, clock, rl_last, rl_lock, rl_wake,
                   rl_calls, permits, returns, lock_takes, rl_sleeps>>
    /\ RLOnly

\* time.sleep(sleep_for) is called: it lasts at least sleep_for from now on.
WaitSleep(t) ==
    /\ rl_pc[t] = "sleep"
    /\ rl_wake' = [rl_wake EXCEPT ![t] = clock + rl_sleep_for[t]]
    /\ rl_sleeps' = rl_sleeps + 1
    /\ rl_pc' = [rl_pc EXCEPT ![t] = "sleeping"]
    /\ UNCHANGED <<min_interval_sec, clock, rl_last, rl_lock, rl_now,
                   rl_sleep_for, rl_calls, permits, returns, lock_takes>>
    /\ RLOnly

\* time.sleep returns, no earlier than asked (it may oversleep).
WaitWake(t) ==
    /\ rl_pc[t] = "sleeping"
    /\ clock >= rl_wake[t]
    /\ rl_pc' = [rl_pc EXCEPT ![t] = "stamp"]
    /\ UNCHANGED <<min_interval_sec, clock, rl_last, rl_lock, rl_now,
                   rl_sleep_for, rl_wake, rl_calls, permits, returns,
                   lock_takes, rl_sleeps>>
    /\ RLOnly

\* self._last = time.monotonic()
WaitStamp(t) ==
    /\ rl_pc[t] = "stamp"
    /\ rl_last' = clock
    /\ permits' = Append(permits, clock)
    /\ rl_pc' = [rl_pc EXCEPT ![t] = "release"]
    /\ UNCHANGED <<min_interval_sec, clock, rl_lock, rl_now, rl_sleep_for,
                   rl_wake, rl_calls, returns, lock_takes, rl_sleeps>>
    /\ RLOnly

\* a with-block that is left with the lock still held
WaitReleaseKeepsLock(t) ==
    /\ rl_pc[t] = "release"
    /\ rl_pc' = [rl_pc EXCEPT ![t] = "return"]
    /\ UNCHANGED <<min_interval_sec, clock, rl_last, rl_lock, rl_now,
                   rl_sleep_for, rl_wake, rl_calls, permits, returns,
                   lock_takes, rl_sleeps>>
    /\ RLOnly

\* the with-block is left: the lock is released
WaitRelease(t) ==
    /\ rl_pc[t] = "release"
    /\ rl_lock' = 0
    /\ rl_pc' = [rl_pc EXCEPT ![t] = "return"]
    /\ UNCHANGED <<min_interval_sec, clock, rl_last, rl_now, rl_sleep_for,
                   rl_wake, rl_calls, permits, returns, lock_takes,
                   rl_sleeps>>
    /\ RLOnly

\* wait() returns to its caller
WaitReturn(t) ==
    /\ rl_pc[t] = "return"
    /\ returns' = Append(returns, clock)
    /\ rl_pc' = [rl_pc EXCEPT ![t] = "idle"]
    /\ UNCHANGED <<min_interval_sec, clock, rl_last, rl_lock, rl_now,
                   rl_sleep_for, rl_wake, rl_calls, permits, lock_takes,
                   rl_sleeps>>
    /\ RLOnly

\* time passes
Tick ==
    /\ clock < MaxClock
    /\ clock' = clock + 1
    /\ UNCHANGED <<min_interval_sec, rl_last, rl_lock, rl_pc, rl_now,
                   rl_sleep_for, rl_wake, rl_calls, permits, returns,
                   lock_takes, rl_sleeps>>
    /\ RLOnly

RLNext ==
    \/ \E t \in Threads : WaitEnter(t)
    \/ \E t \in Threads : WaitAcquire(t)
    \/ \E t \in Threads : WaitReadNow(t)
    \/ \E t \in Threads : WaitSleep(t)
    \/ \E t \in Threads : WaitWake(t)
    \/ \E t \in Threads : WaitStamp(t)
    \/ \E t \in Threads : WaitRelease(t)
    \/ \E t \in Threads : WaitReturn(t)
    \/ Tick

(***************************************************************************)
(* Resilient transport: sec_get_json, sec_get_text, sec_get_bytes,         *)
(* sec_download_file                                                       *)
(***************************************************************************)
max_retries_one_more == 10 + 1

max_retries == 10

Ops == {"json", "text", "bytes", "file"}

\* Statuses a final response can carry (requests follows redirects, so a
\* 3xx is final only when it cannot be followed).
Statuses == {200, 300, 400, 403, 404, 429, 500, 501, 502, 503, 504}
NoStatus == 0
NetFail == -1

RetryStatusesWithout403 == {429, 500, 502, 503, 504}

\* if resp.status_code in (403, 429, 500, 502, 503, 504):
RetryStatuses == {403, 429, 500, 502, 503, 504}

\* requests.Response.raise_for_status raises HTTPError for 400 <= status < 600
RaisesForStatus(s) == 400 <= s /\ s < 600

\* Exception classes
TransportFailureError == "RuntimeError"
HttpStatusError == "HTTPError"
MissingIndexError == "RuntimeError"
ValidationError == "ValueError"
\* An exception: its class, the statement that raised it, the status it carries
NoErr == [cls |-> "none", at |-> "none", status |-> NoStatus]
Err(c, a, s) == [cls |-> c, at |-> a, status |-> s]

ClassifyNo404Skip(op, s) ==
    IF s \in RetryStatuses THEN "retry"
    ELSE IF RaisesForStatus(s) THEN "http_error"
    ELSE "ok"

\* What one response leads to, after the try/except around session.get.
Classify(op, s) ==
    IF s \in RetryStatuses THEN "retry"
    ELSE IF op = "file" /\ s = 404 THEN "skip"
    ELSE IF RaisesForStatus(s) THEN "http_error"
    ELSE "ok"

\* backoff = backoff * 2, without the cap
NextBackoffUncapped(b) == b * 2

\* backoff = min(backoff * 2, 60.0)
NextBackoff(b) == IF b * 2 < 60 THEN b * 2 ELSE 60

\* Files
NoFile == [exists |-> FALSE, data |-> <<>>]
File(d) == [exists |-> TRUE, data |-> d]
Body(n) == [i \in 1..n |-> i]
OldData == <<0>>

\* Paths as their dot-separated parts
TargetPath == <<"doc", "htm">>

TmpPathIsTarget(p) == p

\* tmp_path = target_path.with_suffix(target_path.suffix + ".part")
TmpPath(p) == Append(p, "part")

Paths == {TargetPath, TmpPath(TargetPath)}

AlreadyDownloadedOverOneChunk(f) == f.exists /\ Len(f.data) > 1

\* if target_path.exists() and target_path.stat().st_size > 0: return
AlreadyDownloaded(f) == f.exists /\ Len(f.data) > 0

TrInit ==
    /\ tr_op = "none"
    /\ tr_pc = "idle"
    /\ attempt = 0
    /\ backoff = 1
    /\ tr_waits = 0
    /\ tr_gets = 0
    /\ tr_sleeps = 0
    /\ tr_slept = 0
    /\ tr_status = NoStatus
    /\ tr_err = NoErr
    /\ tr_body = <<>>
    /\ tr_written = 0
    /\ \E f \in {NoFile, File(<<>>), File(OldData)} :
       \E g \in {NoFile, File(OldData)} :
          fs = [p \in Paths |-> IF p = TargetPath THEN f ELSE g]
    /\ fs_parent \in BOOLEAN
    /\ tr_pre = NoFile
    /\ tr_calls = 0
    /\ tr_prev = "none"

\* No transport call in progress, for the specifications that do not run one.
TrQuiet ==
    /\ tr_op = "none"
    /\ tr_pc = "idle"
    /\ attempt = 0
    /\ backoff = 1
    /\ tr_waits = 0
    /\ tr_gets = 0
    /\ tr_sleeps = 0
    /\ tr_slept = 0
    /\ tr_status = NoStatus
    /\ tr_err = NoErr
    /\ tr_body = <<>>
    /\ tr_written = 0
    /\ fs = [p \in Paths |-> NoFile]
    /\ fs_parent = FALSE
    /\ tr_pre = NoFile
    /\ tr_calls = 0
    /\ tr_prev = "none"

\* How a finished call ended, as the next call sees it.
TrOutcome ==
    IF tr_pc = "idle" THEN "none"
    ELSE IF tr_pc = "returned" /\ tr_op = "file" THEN
        IF tr_gets = 0 THEN "skipped"
        ELSE IF tr_status = 404 THEN "skip404"
        ELSE "written"
    ELSE tr_pc

\* A call starts. sec_download_file first creates the parent directory and
\* returns at once when the destination is already there and non-empty.
TrCall(op) ==
    /\ tr_pc \in {"idle", "returned", "raised", "crashed"}
    /\ tr_calls < MaxTrCalls
    /\ tr_calls' = tr_calls + 1
    /\ tr_prev' = TrOutcome
    /\ tr_op' = op
    /\ attempt' = 0
    /\ backoff' = 1
    /\ tr_waits' = 0
    /\ tr_gets' = 0
    /\ tr_sleeps' = 0
    /\ tr_slept' = 0
    /\ tr_status' = NoStatus
    /\ tr_err' = NoErr
    /\ tr_body' = <<>>
    /\ tr_written' = 0
    /\ tr_pre' = fs[TargetPath]
    /\ fs_parent' = IF op = "file" THEN TRUE ELSE fs_parent
    /\ tr_pc' = IF op = "file" /\ AlreadyDownloaded(fs[TargetPath])
                THEN "returned" ELSE "loop"
    /\ UNCHANGED fs
    /\ TrOnly

\* for attempt in range(max_retries): rate_limiter.wait()
TrWait ==
    /\ tr_pc = "loop"
    /\ attempt < max_retries
    /\ tr_waits' = tr_waits + 1
    /\ tr_pc' = "get"
    /\ UNCHANGED <<tr_op, attempt, backoff, tr_gets, tr_sleeps, tr_slept,
                   tr_status, tr_err, tr_body, tr_written, fs, fs_parent,
                   tr_pre, tr_calls, tr_prev>>
    /\ TrOnly

\* the loop is exhausted: raise RuntimeError("Failed to ... after retries")
TrExhausted ==
    /\ tr_pc = "loop"
    /\ attempt >= max_retries
    /\ tr_err' = Err(TransportFailureError, "after_retries", NoStatus)
    /\ tr_pc' = "raised"
    /\ UNCHANGED <<tr_op, attempt, backoff, tr_waits, tr_gets, tr_sleeps,
                   tr_slept, tr_status, tr_body, tr_written, fs, fs_parent,
                   tr_pre, tr_calls, tr_prev>>
    /\ TrOnly

\* time.sleep(backoff + random.random()); backoff = min(...); continue
TrBackoff ==
    /\ tr_sleeps' = tr_sleeps + 1
    /\ tr_slept' = backoff
    /\ backoff' = NextBackoff(backoff)
    /\ attempt' = attempt + 1
    /\ tr_pc' = "loop"
    /\ UNCHANGED <<tr_err, tr_body, tr_written, fs>>

\* session.get raises requests.exceptions.RequestException
TrGetNetFail ==
    /\ tr_pc = "get"
    /\ tr_gets' = tr_gets + 1
    /\ tr_status' = NetFail
    /\ TrBackoff
    /\ UNCHANGED <<tr_op, tr_waits, fs_parent, tr_pre, tr_calls, tr_prev>>
    /\ TrOnly

\* session.get returns a response with status s (and, for a streamed
\* download, a body of n chunks); json_ok: whether resp.json() parses.
TrGetResponse(s, n, json_ok) ==
    /\ tr_pc = "get"
    /\ tr_gets' = tr_gets + 1
    /\ tr_status' = s
    /\ CASE Classify(tr_op, s) = "retry" -> TrBackoff
         [] Classify(tr_op, s) = "skip" ->
              /\ tr_pc' = "returned"
              /\ UNCHANGED <<attempt, backoff, tr_sleeps, tr_slept, tr_err,
                             tr_body, tr_written, fs>>
         [] Classify(tr_op, s) = "http_error" ->
              /\ tr_pc' = "raised"
              /\ tr_err' = Err(HttpStatusError, "raise_for_status", s)
              /\ UNCHANGED <<attempt, backoff, tr_sleeps, tr_slept, tr_body,
                             tr_written, fs>>
         [] Classify(tr_op, s) = "ok" ->
              /\ IF tr_op = "file"
                 THEN /\ tr_pc' = "open"
                      /\ tr_body' = Body(n)
                      /\ UNCHANGED tr_err
                 ELSE IF tr_op = "json" /\ ~json_ok
                 THEN /\ tr_pc' = "raised"
                      /\ tr_err' = Err("JSONDecodeError", "resp_json", NoStatus)
                      /\ UNCHANGED tr_body
                 ELSE /\ tr_pc' = "returned"
                      /\ UNCHANGED <<tr_err, tr_body>>
              /\ UNCHANGED <<attempt, backoff, tr_sleeps, tr_slept,
                             tr_written, fs>>
    /\ UNCHANGED <<tr_op, tr_waits, fs_parent, tr_pre, tr_calls, tr_prev>>
    /\ TrOnly

\* with open(tmp_path, "wb") as f:
TrOpenTmp ==
    /\ tr_pc = "open"
    /\ fs' = [fs EXCEPT ![TmpPath(TargetPath)] = File(<<>>)]
    /\ tr_pc' = "stream"
    /\ UNCHANGED <<tr_op, attempt, backoff, tr_waits, tr_gets, tr_sleeps,
                   tr_slept, tr_status, tr_err, tr_body, tr_written,
                   fs_parent, tr_pre, tr_calls, tr_prev>>
    /\ TrOnly

\* for chunk in resp.iter_content(...): f.write(chunk)
TrWriteChunk ==
    /\ tr_pc = "stream"
    /\ tr_written < Len(tr_body)
    /\ tr_written' = tr_written + 1
    /\ fs' = [fs EXCEPT ![TmpPath(TargetPath)] =
                File(Append(@.data, tr_body[tr_written + 1]))]
    /\ UNCHANGED <<tr_op, tr_pc, attempt, backoff, tr_waits, tr_gets,
                   tr_sleeps, tr_slept, tr_status, tr_err, tr_body,
                   fs_parent, tr_pre, tr_calls, tr_prev>>
    /\ TrOnly

\* resp.iter_content raises (connection lost, read timeout): the exception
\* is raised outside the try block and leaves sec_download_file.
TrStreamFail ==
    /\ tr_pc = "stream"
    /\ tr_written < Len(tr_body)
    /\ tr_err' = Err("RequestException", "iter_content", NoStatus)
    /\ tr_pc' = "raised"
    /\ UNCHANGED <<tr_op, attempt, backoff, tr_waits, tr_gets, tr_sleeps,
                   tr_slept, tr_status, tr_body, tr_written, fs, fs_parent,
                   tr_pre, tr_calls, tr_prev>>
    /\ TrOnly

\* os.replace(tmp_path, target_path); return
TrReplace ==
    /\ tr_pc = "stream"
    /\ tr_written = Len(tr_body)
    /\ fs' = [p \in Paths |->
                IF p = TargetPath THEN fs[TmpPath(TargetPath)]
                ELSE IF p = TmpPath(TargetPath) THEN NoFile
                ELSE fs[p]]
    /\ tr_pc' = "returned"
    /\ UNCHANGED <<tr_op, attempt, backoff, tr_waits, tr_gets, tr_sleeps,
                   tr_slept, tr_status, tr_err, tr_body, tr_written,
                   fs_parent, tr_pre, tr_calls, tr_prev>>
    /\ TrOnly

\* the process is killed in the middle of a call
TrCrash ==
    /\ tr_pc \in {"loop", "get", "open", "stream"}
    /\ tr_pc' = "crashed"
    /\ UNCHANGED <<tr_op, attempt, backoff, tr_waits, tr_gets, tr_sleeps,
                   tr_slept, tr_status, tr_err, tr_body, tr_written, fs,
                   fs_parent, tr_pre, tr_calls, tr_prev>>
    /\ TrOnly

TrNext ==
    \/ \E op \in Ops : TrCall(op)
    \/ TrWait
    \/ TrExhausted
    \/ TrGetNetFail
    \/ \E s \in Statuses : \E n \in 0..MaxChunks : \E j \in BOOLEAN :
          TrGetResponse(s, n, j)
    \/ TrOpenTmp
    \/ TrWriteChunk
    \/ TrStreamFail
    \/ TrReplace
    \/ TrCrash

(***************************************************************************)
(* Identifier normalization, contact string, shard spec                    *)
(***************************************************************************)
\* Strings the code inspects are sequences of one-character strings.
DigitChars == <<"0", "1", "2", "3", "4", "5", "6", "7", "8", "9">>
IsDigit(c) == \E i \in 1..10 : DigitChars[i] = c
DigitOf(c) == (CHOOSE i \in 1..10 : DigitChars[i] = c) - 1

\* digits = re.sub(r"\D", "", cik or "")
OnlyDigits(x) == SelectSeq(x, IsDigit)

\* digits = digits[:10]
Last10KeepFirst(d) == IF Len(d) > 10 THEN SubSeq(d, 1, 10) ELSE d

\* if len(digits) > 10: digits = digits[-10:]
Last10(d) == IF Len(d) > 10 THEN SubSeq(d, Len(d) - 9, Len(d)) ELSE d

\* digits.zfill(10)
ZFill10(d) ==
    [i \in 1..(IF Len(d) > 10 THEN Len(d) ELSE 10) |->
        IF Len(d) >= 10 THEN d[i]
        ELSE IF i <= 10 - Len(d) THEN "0" ELSE d[i - (10 - Len(d))]]

\* if not digits: raise ValueError
CikHasDigits(x) == OnlyDigits(x) # <<>>

normalize_cik(x) == ZFill10(Last10(OnlyDigits(x)))

UserAgentAlwaysOk(ua) == TRUE

\* if not user_agent or "@" not in user_agent: raise ValueError
UserAgentOk(ua) == ua # <<>> /\ \E i \in 1..Len(ua) : ua[i] = "@"

DownloadModes == {"8k_ex", "primary_ex_htm", "all"}
SourceModes == {"cik", "master_index"}

\* int(m.group(1))
RECURSIVE IntOf(_)
IntOf(d) ==
    IF d = <<>> THEN 0
    ELSE 10 * IntOf(SubSeq(d, 1, Len(d) - 1)) + DigitOf(d[Len(d)])

AllWs(x) == \A i \in 1..Len(x) : x[i] = " "
AllDigits(x) == x # <<>> /\ \A i \in 1..Len(x) : IsDigit(x[i])
Seg(x, i, j) == SubSeq(x, i + 1, j)

\* m = re.match(r"^\s*(\d+)\s*/\s*(\d+)\s*$", shard): the set of
\* <<group(1), group(2)>> over the ways the pattern matches
ShardMatch(x) ==
    LET L == Len(x) IN
    { <<Seg(x, a, b), Seg(x, d, e)>> :
        <<a, b, c, d, e>> \in
          { q \in (0..L) \X (0..L) \X (0..L) \X (0..L) \X (0..L) :
              /\ q[1] < q[2] /\ q[2] <= q[3] /\ q[3] < q[4] /\ q[4] < q[5]
              /\ AllWs(Seg(x, 0, q[1]))
              /\ AllDigits(Seg(x, q[1], q[2]))
              /\ AllWs(Seg(x, q[2], q[3]))
              /\ Seg(x, q[3], q[3] + 1) = <<"/">>
              /\ AllWs(Seg(x, q[3] + 1, q[4]))
              /\ AllDigits(Seg(x, q[4], q[5]))
              /\ AllWs(Seg(x, q[5], L)) } }

(***************************************************************************)
(* Filing references, sorting, de-duplication, manifest                    *)
(***************************************************************************)
Raw7 == <<"7">>
Raw07 == <<"0", "7">>
Raw8 == <<"C", "I", "K", "8">>
RawX == <<"x">>

\* FilingRef; accession numbers and dates are numbered so that the order of
\* the numbers is the order of the strings.
Ref(c, a, d, p) ==
    [cik10 |-> c, accession_no |-> a, filing_date |-> d, form |-> "8-K",
     primary_document |-> p]

\* The filings EDGAR may list.
Universe ==
    { Ref(normalize_cik(Raw7), 1, 1, "p.htm"),
      Ref(normalize_cik(Raw7), 2, 2, "p.htm"),
      Ref(normalize_cik(Raw8), 3, 2, "p.htm") }

SeqsUpTo(S, n) == UNION { [1..k -> S] : k \in 0..n }

\* key=lambda x: x.filing_date
RefKeyLeqDateOnly(a, b) == a.filing_date <= b.filing_date

\* key=lambda x: (x.filing_date, x.accession_no)
RefKeyLeq(a, b) ==
    \/ a.filing_date < b.filing_date
    \/ a.filing_date = b.filing_date /\ a.accession_no <= b.accession_no

\* the stable insertion of r into a sorted list: before the first element
\* whose key is greater
InsertRef(r, sorted) ==
    LET after == { i \in 1..Len(sorted) : ~RefKeyLeq(sorted[i], r) }
    IN IF after = {} THEN Append(sorted, r)
       ELSE LET p == CHOOSE i \in after : \A j \in after : i <= j
            IN SubSeq(sorted, 1, p - 1) \o <<r>> \o
               SubSeq(sorted, p, Len(sorted))

\* the first n elements of q, sorted. The sorted front is bound once, as
\* the element of a one-element set, so that it is computed once.
RECURSIVE SortUpTo(_, _)
SortUpTo(q, n) ==
    IF n = 0 THEN <<>>
    ELSE CHOOSE out \in { InsertRef(q[n], front) :
                            front \in {SortUpTo(q, n - 1)} } : TRUE

\* list.sort(key=...): a stable sort
SortRefs(q) == CHOOSE out \in { SortUpTo(v, Len(v)) : v \in {q} } : TRUE

\* de-dup by accession, the last occurrence kept
RECURSIVE DedupRefsKeepLast(_)
DedupRefsKeepLast(q) ==
    IF q = <<>> THEN <<>>
    ELSE CHOOSE out \in
            { IF \E i \in 1..Len(back) :
                    back[i].accession_no = q[1].accession_no
              THEN back ELSE <<q[1]>> \o back :
              back \in {DedupRefsKeepLast(Tail(q))} } : TRUE

\* the first n elements of q, the first occurrence of each accession kept
RECURSIVE DedupUpTo(_, _)
DedupUpTo(q, n) ==
    IF n = 0 THEN <<>>
    ELSE CHOOSE out \in
            { IF \E i \in 1..Len(front) :
                    front[i].accession_no = q[n].accession_no
              THEN front ELSE Append(front, q[n]) :
              front \in {DedupUpTo(q, n - 1)} } : TRUE

\* de-dup by accession, the first occurrence kept
DedupRefs(q) == CHOOSE out \in { DedupUpTo(v, Len(v)) : v \in {q} } : TRUE

\* FilingRef(..., primary_document="")
NoPrimary(r) == [r EXCEPT !.primary_document = ""]

\* [f(x) for x in q], for the two functions the code maps over lists
WithoutPrimary(q) == [i \in 1..Len(q) |-> NoPrimary(q[i])]
NormalizeAll(q) == [i \in 1..Len(q) |-> normalize_cik(q[i])]

\* the start-date floor: dates before it are dropped
OnOrAfter(q, sd) ==
    IF sd.given THEN SelectSeq(q, LAMBDA r : r.filing_date >= sd.day) ELSE q

\* Date strings are numbered in string order: "" is 0, the ISO dates are
\* 1..3, then comes a string that has the shape of a date and is none, and
\* last "unknown-date".
EmptyDate == 0
Days == 1..3
BadDay == 7
UnknownDate == 9

\* _try_parse_date_yyyy_mm_dd(s) is not None
ParsesAsDate(d) == d \in Days

\* "" or a missing key, where an accession number is expected
NoAccession == 0

\* One row as EDGAR serves it: a filing of the submissions record, a row of
\* a listing page, a line of a quarterly index
Row(c, f, d, a, p) ==
    [cik_raw |-> c, form |-> f, date |-> d, acc |-> a, primary |-> p]

\* What one request returns: the rows, or no answer at all
Batch(fetched, rows) == [fetched |-> fetched, rows |-> rows]

\* str.strip() on the form strings
Strip(f) == IF f = " 8-K " THEN "8-K" ELSE f

\* forms = ["8-K", "8-K/A"] whatever include_amendments says
FormsWithAmendments(incl) == <<"8-K", "8-K/A">>

\* forms = ["8-K"]; if include_amendments: forms.append("8-K/A")
Forms(incl) == IF incl THEN <<"8-K", "8-K/A">> ELSE <<"8-K">>
WantedForms(incl) == { Forms(incl)[i] : i \in 1..Len(Forms(incl)) }

\* FilingRef(cik10=, accession_no=, filing_date=, form=, primary_document=)
RefF(c, a, d, f, p) ==
    [cik10 |-> c, accession_no |-> a, filing_date |-> d, form |-> f,
     primary_document |-> p]

NoManifest == [exists |-> FALSE, lines |-> <<>>]
ManifestFile(q) == [exists |-> TRUE, lines |-> q]

\* A line of the manifest holding a JSON object: its "cik10",
\* "accession_no", "filing_date" and "form", an absent or empty one being
\* <<>>, NoAccession, EmptyDate, ""
ManifestLine(c, a, d, f) ==
    [kind |-> "object", cik10 |-> c, accession_no |-> a, filing_date |-> d,
     form |-> f]

\* A blank line; a line that is no JSON; a line of JSON that is no object
BlankLine == [ManifestLine(<<>>, NoAccession, EmptyDate, "")
                EXCEPT !.kind = "blank"]
GarbageLine == [BlankLine EXCEPT !.kind = "garbage"]
NonObjectLine == [BlankLine EXCEPT !.kind = "nonobject"]

\* a manifest line that leaves the form out
LineOfWithoutForm(t) ==
    ManifestLine(t.cik10, t.accession_no, t.filing_date, "")

\* json.dumps({"cik10": ..., "accession_no": ..., "filing_date": ...,
\*             "form": ...}): the primary document is not written
LineOf(t) == ManifestLine(t.cik10, t.accession_no, t.filing_date, t.form)

\* write_targets_manifest
write_targets_manifest(q) == ManifestFile([i \in 1..Len(q) |-> LineOf(q[i])])

\* json.loads(ln) succeeds
ParsesAsJson(ln) == ln.kind \in {"object", "nonobject"}

\* The exception one line makes read_targets_manifest raise, or NoErr:
\* obj.get on a value that is no dict; normalize_cik on an id without digits
LineError(ln) ==
    IF ln.kind = "nonobject"
    THEN Err("AttributeError", "obj_get", NoStatus)
    ELSE IF ln.kind = "object" /\ ~CikHasDigits(ln.cik10)
    THEN Err(ValidationError, "normalize_cik", NoStatus)
    ELSE NoErr

\* The exception read_targets_manifest raises: that of the first line that
\* raises one
ReadError(lines) ==
    LET bad == { i \in 1..Len(lines) : LineError(lines[i]) # NoErr }
    IN IF bad = {} THEN NoErr
       ELSE LineError(lines[CHOOSE i \in bad : \A j \in bad : i <= j])

\* read_targets_manifest, when no line raises
read_targets_manifest(m) ==
    LET keep == SelectSeq(m.lines,
                   LAMBDA ln : /\ ln.kind = "object"
                               /\ ln.accession_no # NoAccession)
    IN SortRefs([i \in 1..Len(keep) |->
          RefF(normalize_cik(keep[i].cik10), keep[i].accession_no,
               IF keep[i].filing_date = EmptyDate THEN UnknownDate
               ELSE keep[i].filing_date,
               IF keep[i].form = "" THEN "8-K" ELSE keep[i].form, "")])

\* int(hashlib.sha1(accession_no).hexdigest(), 16): some fixed function of
\* the accession number
Sha1Int(a) == 5 * a + 1

\* a filter that deals the targets out by their position in the list
ShardKeepByPosition(q, n, k) ==
    LET idx == { i \in 1..Len(q) : (i % k) = (n - 1) }
        F[i \in 0..Len(q)] ==
            IF i = 0 THEN <<>>
            ELSE IF i \in idx THEN Append(F[i - 1], q[i]) ELSE F[i - 1]
    IN F[Len(q)]

\* the shard filter
ShardKeep(q, n, k) ==
    SelectSeq(q, LAMBDA t : (Sha1Int(t.accession_no) % k) = (n - 1))

(***************************************************************************)
(* run_download: arguments                                                 *)
(***************************************************************************)
NoDate == [given |-> FALSE, valid |-> TRUE, day |-> 0]
GoodDate == [given |-> TRUE, valid |-> TRUE, day |-> 2]
EarlyDate == [given |-> TRUE, valid |-> TRUE, day |-> 1]
BadDate == [given |-> TRUE, valid |-> FALSE, day |-> 0]

\* None and "" are both falsy
NoShard == <<>>
Shards ==
    { NoShard, <<"1", "/", "2">>, <<"2", "/", "2">>, <<"0", "/", "2">>,
      <<"3", "/", "2">>, <<"1", "/", "0">>, <<"1", "2">>,
      <<" ", "1", "/", " ", "2">> }

CikLists ==
    { <<>>, <<RawX>>, <<Raw7>>, <<Raw7, Raw8>>, <<Raw7, Raw07>>,
      <<Raw7, RawX>> }
UserAgents == { <<>>, <<"n">>, <<"n", "@", "x">> }

Config(c, ua, dm, sm, sd, sh, re, mo, sv, mw) ==
    [ciks |-> c, user_agent |-> ua, download_mode |-> dm, source_mode |-> sm,
     start_date |-> sd, shard |-> sh, reuse_targets_manifest |-> re,
     manifest_only |-> mo, save_manifest |-> sv, max_workers |-> mw]

\* Every combination of the arguments validated up front, with the other
\* arguments at their defaults; then the options of each source mode.
Configs ==
    { Config(c, ua, dm, sm, NoDate, NoShard, FALSE, FALSE, FALSE, 2) :
        c \in CikLists, ua \in UserAgents,
        dm \in DownloadModes \cup {"bogus"},
        sm \in SourceModes \cup {"bogus"} }
    \cup
    { Config(<<Raw7, Raw8>>, <<"n", "@", "x">>, dm, "cik", sd, NoShard,
             FALSE, FALSE, sv, mw) :
        dm \in DownloadModes, sd \in {NoDate, GoodDate, BadDate},
        sv \in BOOLEAN, mw \in {0, 2} }
    \cup
    { Config(<<Raw7, Raw8>>, <<"n", "@", "x">>, "primary_ex_htm",
             "master_index", sd, sh, re, mo, FALSE, 2) :
        sd \in {NoDate, GoodDate, BadDate}, sh \in Shards,
        re \in BOOLEAN, mo \in BOOLEAN }

\* The configurations run with the whole of Universe upstream
RunConfigs ==
    { Config(<<Raw7, Raw8>>, <<"n", "@", "x">>, "all", "cik", NoDate,
             NoShard, FALSE, FALSE, TRUE, 2),
      Config(<<Raw7, Raw07>>, <<"n", "@", "x">>, "8k_ex", "cik", GoodDate,
             NoShard, FALSE, FALSE, FALSE, 0),
      Config(<<Raw7>>, <<"n", "@", "x">>, "primary_ex_htm", "cik", EarlyDate,
             NoShard, FALSE, FALSE, FALSE, 0),
      Config(<<Raw7, Raw8>>, <<"n", "@", "x">>, "primary_ex_htm",
             "master_index", NoDate, NoShard, FALSE, FALSE, FALSE, 2),
      Config(<<Raw7, Raw8>>, <<"n", "@", "x">>, "all", "master_index",
             GoodDate, <<"1", "/", "2">>, TRUE, FALSE, FALSE, 2) }

\* A targets manifest a previous run, or the user, may have left
Manifests(U) ==
    { NoManifest } \cup
    { ManifestFile(q) : q \in SeqsUpTo({LineOf(r) : r \in U}, 1) } \cup
    { ManifestFile(<<LineOf(r), LineOf(t)>>) : r \in U, t \in U } \cup
    { ManifestFile(<<ManifestLine(<<>>, r.accession_no, r.filing_date,
                                  r.form)>>) : r \in U }

NoSummary ==
    [returned |-> FALSE, ok |-> 0, failed |-> 0, total |-> 0,
     companies_total |-> 0, companies_done |-> 0, companies_failed |-> 0]

(***************************************************************************)
(* Discovery: what EDGAR serves, and the three strategies                  *)
(***************************************************************************)
RECURSIVE Flatten(_)
Flatten(bs) ==
    IF bs = <<>> THEN <<>>
    ELSE (IF bs[1].fetched THEN bs[1].rows ELSE <<>>) \o Flatten(Tail(bs))

\* filter_8k_filings, up to the de-duplication: local 'out'
SubmissionRefs(cik10, filings, incl) ==
    LET keep == SelectSeq(filings,
                   LAMBDA f : /\ Strip(f.form) \in WantedForms(incl)
                              /\ f.acc # NoAccession)
    IN [i \in 1..Len(keep) |->
          RefF(cik10, keep[i].acc,
               IF keep[i].date = EmptyDate THEN UnknownDate ELSE keep[i].date,
               Strip(keep[i].form), keep[i].primary)]

\* filter_8k_filings
filter_8k_filings(cik10, filings, incl) ==
    SortRefs(DedupRefs(SubmissionRefs(cik10, filings, incl)))

\* collect_8k_from_master_index, up to the de-duplication: local 'out'.
\* A quarter that could not be fetched, or is empty, is passed over.
MasterRefs(quarters, floor, filter, incl) ==
    LET keep == SelectSeq(Flatten(quarters),
                   LAMBDA r : /\ Strip(r.form) \in WantedForms(incl)
                              /\ ParsesAsDate(r.date)
                              /\ ~(floor.given /\ r.date < floor.day)
                              /\ CikHasDigits(r.cik_raw)
                              /\ (filter = {}
                                  \/ normalize_cik(r.cik_raw) \in filter)
                              /\ r.acc # NoAccession)
    IN [i \in 1..Len(keep) |->
          RefF(normalize_cik(keep[i].cik_raw), keep[i].acc, keep[i].date,
               Strip(keep[i].form), "")]

\* The page of a listing that starts at offset 'start'
PageOf(listing, start, size) ==
    IF start >= Len(listing) THEN <<>>
    ELSE SubSeq(listing, start + 1,
                IF start + size < Len(listing) THEN start + size
                ELSE Len(listing))

\* for form, filing_date, accession_no in rows: ... refs.append(...)
PageRefs(cik10, rows, form_type, floor) ==
    LET keep == SelectSeq(rows,
                   LAMBDA r : ~floor.given
                              \/ (ParsesAsDate(r.date) /\ r.date >= floor.day))
    IN [i \in 1..Len(keep) |->
          RefF(cik10, keep[i].acc, keep[i].date,
               IF keep[i].form = "" THEN form_type ELSE keep[i].form, "")]

\* a walker without the early stop
FloorStopNever(rows, floor) == "go"

FloorStopAnyOlder(rows, floor) ==
    IF floor.given /\ \E i \in 1..Len(rows) :
                          ParsesAsDate(rows[i].date) /\ rows[i].date < floor.day
    THEN "break" ELSE "go"

\* if start_dt and oldest_on_page and oldest_on_page < start_dt and
\*    all(_parse_date_yyyy_mm_dd(r[1]) < start_dt for r in rows): break
\* all() stops at the first row that is not older; a row it reaches whose
\* date does not parse makes _parse_date_yyyy_mm_dd raise ValueError.
FloorStop(rows, floor) ==
    LET parsed == { i \in 1..Len(rows) : ParsesAsDate(rows[i].date) }
        not_older == { i \in 1..Len(rows) :
                         ~(ParsesAsDate(rows[i].date)
                           /\ rows[i].date < floor.day) }
    IN IF ~floor.given \/ parsed = {} THEN "go"
       ELSE IF ~(\E i \in parsed : rows[i].date < floor.day) THEN "go"
       ELSE IF not_older = {} THEN "break"
       ELSE LET k == CHOOSE i \in not_older : \A j \in not_older : i <= j
            IN IF ParsesAsDate(rows[k].date) THEN "go" ELSE "raise"

\* page_size: int = 100
page_size == 100

\* The company whose filings are discovered
DsCik == normalize_cik(Raw7)

\* Filings of a submissions record: repeated accession numbers, an
\* amendment, a padded form, a missing date, a missing accession number,
\* another form
SubRowSet ==
    { Row(<<>>, "8-K", 2, 1, "p.htm"),
      Row(<<>>, "8-K", 1, 1, "q.htm"),
      Row(<<>>, "8-K/A", 1, 2, "p.htm"),
      Row(<<>>, " 8-K ", EmptyDate, 2, ""),
      Row(<<>>, "8-K", 3, NoAccession, "p.htm"),
      Row(<<>>, "10-K", 2, 3, "p.htm") }

\* Rows of a listing page: _CompanyFilingsParser keeps a row only with a
\* form, a date-shaped string and an accession number
ListRowSet ==
    { Row(<<>>, "8-K", 3, 1, ""),
      Row(<<>>, "8-K", 1, 2, ""),
      Row(<<>>, "8-K/A", 2, 1, ""),
      Row(<<>>, "8-K", 2, 2, ""),
      Row(<<>>, "8-K", BadDay, 3, "") }

\* Lines of a quarterly index
MasterRowSet ==
    { Row(Raw7, "8-K", 2, 1, ""),
      Row(Raw7, "8-K", 1, 1, ""),
      Row(Raw8, " 8-K ", 3, 2, ""),
      Row(Raw7, "8-K/A", 3, 2, ""),
      Row(RawX, "8-K", 2, 3, ""),
      Row(Raw7, "8-K", BadDay, NoAccession, "") }

\* Up to MaxRows rows served in two batches, the second at most 'tail' rows
\* long and possibly not served at all
TwoBatches(S, tail) ==
    UNION { { <<Batch(TRUE, SubSeq(q, 1, k)),
                Batch(f, SubSeq(q, k + 1, Len(q)))>> :
                k \in { j \in 0..Len(q) : Len(q) - j <= tail },
                f \in BOOLEAN } :
            q \in SeqsUpTo(S, MaxRows) }

\* A listing of n rows, newest first: the first k on or after day 2, the
\* others before it
NewestFirst(n, k) ==
    [i \in 1..n |-> Row(<<>>, "8-K", IF i <= k THEN 3 ELSE 1, i, "")]

DsStart ==
    /\ ds_pc = "ready"
    /\ ds_form = 0
    /\ ds_start = 0
    /\ ds_refs = <<>>
    /\ ds_requests = <<>>
    /\ ds_out = <<>>
    /\ ds_err = NoErr

\* The walker's arguments and the listings it is served: short listings
\* with small pages; listings of a full page and more; an invalid start date
WkInit ==
    /\ DsStart
    /\ ds_op = "listing"
    /\ ds_filter = {}
    /\ \/ /\ ds_incl \in BOOLEAN
          /\ ds_floor \in {NoDate, GoodDate}
          /\ ds_page_size \in 1..MaxPageSize
          /\ ds_batches \in TwoBatches(ListRowSet, 1)
       \/ /\ ds_incl = FALSE
          /\ ds_floor = GoodDate
          /\ ds_page_size = page_size
          /\ ds_batches \in { <<Batch(TRUE, NewestFirst(n, k))>> :
                                n \in {page_size, page_size + MaxRows},
                                k \in {0, 36} }
       \/ /\ ds_incl = FALSE
          /\ ds_floor = BadDate
          /\ ds_page_size = page_size
          /\ ds_batches = <<Batch(TRUE, <<>>)>>

(***************************************************************************)
(* collect_8k_from_master_index: the scan of the quarterly indexes         *)
(***************************************************************************)
\* start_year: int = 2001
start_year == 2001

\* The years a scan is run over: start_year .. start_year + MaxYears - 1
MaxYears == 2

\* a list that always runs to the fourth quarter of the last year
RECURSIVE iter_whole_years(_, _, _)
iter_whole_years(sy, ey, eq) ==
    IF sy > ey THEN <<>>
    ELSE [q \in 1..4 |-> <<sy, q>>] \o iter_whole_years(sy + 1, ey, eq)

\* _iter_year_quarters(start_year, end_year, end_quarter)
RECURSIVE iter_year_quarters(_, _, _)
iter_year_quarters(sy, ey, eq) ==
    IF sy > ey THEN <<>>
    ELSE [q \in 1..(IF sy = ey /\ eq < 4 THEN eq ELSE 4) |-> <<sy, q>>]
         \o iter_year_quarters(sy + 1, ey, eq)

\* What sec_get_bytes (and gzip.decompress) gives for a quarter's file:
\* "ok" data, "empty" data, "fail" (sec_get_bytes raises), "corrupt"
\* (gzip.decompress raises). Three archives: every master.idx served; only
\* the master.gz served; one with gaps (Q1 plain, Q2 neither, Q3 an empty
\* master.idx, Q4 a master.gz that is no gzip in the first year and a good
\* one later)
Served(pattern, y, q, name) ==
    CASE pattern = "plain" -> IF name = "master.idx" THEN "ok" ELSE "fail"
      [] pattern = "gz" -> IF name = "master.idx" THEN "fail" ELSE "ok"
      [] OTHER ->
           IF name = "master.idx"
           THEN (CASE q = 1 -> "ok" [] q = 3 -> "empty" [] OTHER -> "fail")
           ELSE (CASE q = 4 -> IF y = start_year THEN "corrupt" ELSE "ok"
                   [] OTHER -> "fail")

\* for name in ("master.idx", "master.gz"): try: ... break
\* except Exception: data = None; continue
\* the requests made for one quarter, and whether 'data' is set afterwards
QuarterFetch(pattern, y, q) ==
    LET plain == Served(pattern, y, q, "master.idx")
        gz == Served(pattern, y, q, "master.gz")
    IN IF plain # "fail"
       THEN [requests |-> << <<y, q, "master.idx">> >>, data |-> plain = "ok"]
       ELSE [requests |-> << <<y, q, "master.idx">>, <<y, q, "master.gz">> >>,
             data |-> gz = "ok"]

\* The scans run: a start year, today's year and quarter, an archive
ScanInit ==
    /\ DsStart
    /\ ds_op = "scan"
    /\ ds_incl = FALSE
    /\ ds_floor = NoDate
    /\ ds_filter = {}
    /\ ds_page_size = page_size
    /\ ds_batches \in [start_year : start_year..(start_year + MaxYears),
                       end_year : start_year..(start_year + MaxYears - 1),
                       end_q : 1..4,
                       pattern : {"plain", "gz", "gaps"}]

DsInit ==
    \/ /\ DsStart
       /\ ds_op = "submissions"
       /\ ds_incl \in BOOLEAN
       /\ ds_floor = NoDate
       /\ ds_filter = {}
       /\ ds_page_size = page_size
       /\ ds_batches \in TwoBatches(SubRowSet, MaxRows)
    \/ /\ DsStart
       /\ ds_op = "master"
       /\ ds_incl \in BOOLEAN
       /\ ds_filter \in {{}, {DsCik}}
       /\ ds_page_size = page_size
       /\ \/ /\ ds_floor \in {NoDate, GoodDate}
             /\ ds_batches \in TwoBatches(MasterRowSet, 1)
          \/ /\ ds_floor = BadDate
             /\ ds_batches = <<Batch(TRUE, <<>>)>>
    \/ WkInit
    \/ ScanInit

\* No discovery in progress, for the specifications that run none.
DsQuiet ==
    /\ ds_op = "none"
    /\ ds_incl = FALSE
    /\ ds_floor = NoDate
    /\ ds_filter = {}
    /\ ds_page_size = page_size
    /\ ds_batches = <<>>
    /\ DsStart

\* The requests for batches 1..n, each from its start
RequestsUpTo(n) == [i \in 1..n |-> <<i, 0>>]

\* collect_all_filings_for_cik, then filter_8k_filings: the submissions
\* record and each of its pages is fetched in turn; a fetch that fails
\* raises out of the walker.
DsSubmissions ==
    /\ ds_op = "submissions"
    /\ ds_pc = "ready"
    /\ LET lost == { i \in 1..Len(ds_batches) : ~ds_batches[i].fetched }
       IN IF lost # {}
          THEN /\ ds_requests' =
                    RequestsUpTo(CHOOSE i \in lost : \A j \in lost : i <= j)
               /\ ds_pc' = "raised"
               /\ ds_err' = Err(TransportFailureError, "after_retries",
                                NoStatus)
               /\ UNCHANGED <<ds_refs, ds_out>>
          ELSE /\ ds_requests' = RequestsUpTo(Len(ds_batches))
               /\ ds_refs' = SubmissionRefs(DsCik, Flatten(ds_batches),
                                            ds_incl)
               /\ ds_out' = filter_8k_filings(DsCik, Flatten(ds_batches),
                                              ds_incl)
               /\ ds_pc' = "done"
               /\ UNCHANGED ds_err
    /\ UNCHANGED <<ds_op, ds_incl, ds_floor, ds_filter, ds_batches,
                   ds_page_size, ds_form, ds_start>>
    /\ DiscOnly

\* collect_8k_from_master_index: the start date is parsed, every quarter is
\* requested, the rows are filtered, de-duplicated and sorted
DsMaster ==
    /\ ds_op = "master"
    /\ ds_pc = "ready"
    /\ IF ds_floor.given /\ ~ds_floor.valid
       THEN /\ ds_pc' = "raised"
            /\ ds_err' = Err(ValidationError, "parse_date", NoStatus)
            /\ UNCHANGED <<ds_requests, ds_refs, ds_out>>
       ELSE /\ ds_requests' = RequestsUpTo(Len(ds_batches))
            /\ ds_refs' = MasterRefs(ds_batches, ds_floor, ds_filter, ds_incl)
            /\ ds_out' = SortRefs(DedupRefs(
                            MasterRefs(ds_batches, ds_floor, ds_filter,
                                       ds_incl)))
            /\ ds_pc' = "done"
            /\ UNCHANGED ds_err
    /\ UNCHANGED <<ds_op, ds_incl, ds_floor, ds_filter, ds_batches,
                   ds_page_size, ds_form, ds_start>>
    /\ DiscOnly

\* collect_8k_targets_for_cik up to its first request: the start date is
\* parsed
WkStart ==
    /\ ds_op = "listing"
    /\ ds_pc = "ready"
    /\ IF ds_floor.given /\ ~ds_floor.valid
       THEN /\ ds_pc' = "raised"
            /\ ds_err' = Err(ValidationError, "parse_date", NoStatus)
            /\ UNCHANGED ds_form
       ELSE /\ ds_pc' = "paging"
            /\ ds_form' = 1
            /\ UNCHANGED ds_err
    /\ UNCHANGED <<ds_op, ds_incl, ds_floor, ds_filter, ds_batches,
                   ds_page_size, ds_start, ds_refs, ds_requests, ds_out>>
    /\ DiscOnly

\* The listing EDGAR holds for the form type being walked
Listing ==
    IF ds_form \in 1..Len(ds_batches) THEN ds_batches[ds_form]
    ELSE Batch(TRUE, <<>>)

\* One turn of 'while True': the page at offset 'start' is requested and its
\* rows taken; then the walker stops this form type (empty page, page wholly
\* before the floor, short page) or moves to the next offset. After the last
\* form type the references are de-duplicated and sorted.
WkPage ==
    /\ ds_op = "listing"
    /\ ds_pc = "paging"
    /\ ds_requests' = Append(ds_requests, <<ds_form, ds_start>>)
    /\ LET rows == PageOf(Listing.rows, ds_start, ds_page_size)
           refs == ds_refs \o PageRefs(DsCik, rows, Forms(ds_incl)[ds_form],
                                       ds_floor)
           stop == IF rows = <<>> THEN "break" ELSE FloorStop(rows, ds_floor)
       IN IF ~Listing.fetched
          THEN /\ ds_pc' = "raised"
               /\ ds_err' = Err(TransportFailureError, "after_retries",
                                NoStatus)
               /\ UNCHANGED <<ds_form, ds_start, ds_refs, ds_out>>
          ELSE IF stop = "raise"
          THEN /\ ds_pc' = "raised"
               /\ ds_err' = Err(ValidationError, "parse_date", NoStatus)
               /\ ds_refs' = refs
               /\ UNCHANGED <<ds_form, ds_start, ds_out>>
          ELSE IF stop = "go" /\ Len(rows) >= ds_page_size
          THEN /\ ds_start' = ds_start + ds_page_size
               /\ ds_refs' = refs
               /\ UNCHANGED <<ds_pc, ds_form, ds_out, ds_err>>
          ELSE IF ds_form < Len(Forms(ds_incl))
          THEN /\ ds_form' = ds_form + 1
               /\ ds_start' = 0
               /\ ds_refs' = refs
               /\ UNCHANGED <<ds_pc, ds_out, ds_err>>
          ELSE /\ ds_pc' = "done"
               /\ ds_refs' = refs
               /\ ds_out' = SortRefs(DedupRefs(refs))
               /\ UNCHANGED <<ds_form, ds_start, ds_err>>
    /\ UNCHANGED <<ds_op, ds_incl, ds_floor, ds_filter, ds_batches,
                   ds_page_size>>
    /\ DiscOnly

\* end_year, end_q = _current_year_quarter();
\* quarters = _iter_year_quarters(start_year, end_year, end_q)
ScanQuarters ==
    iter_year_quarters(ds_batches.start_year, ds_batches.end_year,
                       ds_batches.end_q)

\* collect_8k_from_master_index up to the loop over the quarters
DsScanStart ==
    /\ ds_op = "scan"
    /\ ds_pc = "ready"
    /\ ds_pc' = IF ScanQuarters = <<>> THEN "scanned" ELSE "scanning"
    /\ UNCHANGED <<ds_op, ds_incl, ds_floor, ds_filter, ds_batches,
                   ds_page_size, ds_form, ds_start, ds_refs, ds_requests,
                   ds_out, ds_err>>
    /\ DiscOnly

\* One turn of 'for year, qtr in quarters': the plain file is requested,
\* then the compressed one if that raised; 'if not data: continue';
\* ds_refs lists the quarters whose lines were read
DsScanQuarter ==
    /\ ds_op = "scan"
    /\ ds_pc = "scanning"
    /\ LET yq == ScanQuarters[ds_start + 1]
           got == QuarterFetch(ds_batches.pattern, yq[1], yq[2])
       IN /\ ds_requests' = ds_requests \o got.requests
          /\ ds_refs' = IF got.data THEN Append(ds_refs, yq) ELSE ds_refs
    /\ ds_start' = ds_start + 1
    /\ ds_pc' = IF ds_start + 1 = Len(ScanQuarters) THEN "scanned"
                ELSE "scanning"
    /\ UNCHANGED <<ds_op, ds_incl, ds_floor, ds_filter, ds_batches,
                   ds_page_size, ds_form, ds_out, ds_err>>
    /\ DiscOnly

WalkNext ==
    \/ WkStart
    \/ WkPage

DiscNext ==
    \/ DsSubmissions
    \/ DsMaster
    \/ WkStart
    \/ WkPage
    \/ DsScanStart
    \/ DsScanQuarter

(***************************************************************************)
(* The pure functions, each applied to one argument                        *)
(***************************************************************************)
RangeOf(q) == { q[i] : i \in 1..Len(q) }

\* Arguments of normalize_cik: short strings of digits and other characters,
\* and strings of ten digits and more
CikInputs ==
    SeqsUpTo({"0", "7", "x"}, MaxCikLen) \cup
    { <<"1", "2", "3", "4", "5", "6", "7", "8", "9", "0">>,
      <<"1", "2", "3", "4", "5", "6", "7", "8", "9", "0", "1">>,
      <<"0", "1", "2", "3", "4", "5", "6", "7", "8", "9", "0", "1">>,
      <<"1", "2", "3", "4", "-", "5", "6", "7", "8", "-", "9", "0", "1",
        "2", "x">> }

\* Targets with four different accession numbers, one of them filed twice
ShardRefs ==
    { RefF(DsCik, a, 1, "8-K", "") : a \in 1..4 } \cup
    { RefF(normalize_cik(Raw8), 1, 2, "8-K/A", "") }

\* Every reference one of the discovery strategies yields from one row
DiscoveredRefs ==
    UNION { RangeOf(SubmissionRefs(DsCik, <<r>>, TRUE)) : r \in SubRowSet }
    \cup
    UNION { RangeOf(PageRefs(DsCik, <<r>>, "8-K", NoDate)) : r \in ListRowSet }
    \cup
    UNION { RangeOf(MasterRefs(<<Batch(TRUE, <<r>>)>>, NoDate, {}, TRUE)) :
              r \in MasterRowSet }

\* Lines a manifest file may hold: whole ones, ones that lack a field, a
\* blank one, one that is no JSON, one that is JSON and no object
LineSet ==
    { ManifestLine(Raw7, 2, 2, "8-K/A"),
      ManifestLine(Raw8, 1, EmptyDate, ""),
      ManifestLine(Raw7, NoAccession, 1, "8-K"),
      ManifestLine(<<>>, 3, 1, "8-K"),
      BlankLine, GarbageLine, NonObjectLine }

(***************************************************************************)
(* _EdgarIndexParser: the rows of the files table of a filing index page   *)
(***************************************************************************)
\* a <tr> of the table: whether it holds a <th>, and the text of its cells
TRow(th, cells) == [th |-> th, cells |-> cells]

\* self._doc_col_idx: Optional[int] = None
NoCol == 0

\* c.strip().lower() on the header labels
Lower(c) ==
    CASE c = "Document" -> "document"
      [] c = "Type" -> "type"
      [] c = "Seq" -> "seq"
      [] c = "Description" -> "description"
      [] c = "Size" -> "size"
      [] OTHER -> c

\* list.index: the first position holding x (counted from 1)
IndexOf(q, x) ==
    CHOOSE i \in 1..Len(q) : q[i] = x /\ \A j \in 1..(i - 1) : q[j] # x

\* Header row: detect column indices for 'Document' and 'Type'
HeaderRow(cols, cells) ==
    LET lower == [i \in 1..Len(cells) |-> Lower(cells[i])]
    IN [doc |-> IF \E i \in 1..Len(lower) : lower[i] = "document"
                THEN IndexOf(lower, "document") ELSE cols.doc,
        typ |-> IF \E i \in 1..Len(lower) : lower[i] = "type"
                THEN IndexOf(lower, "type") ELSE cols.typ]

\* if doc and doc.lower() != "document": self.rows.append((doc, typ))
KeepRow(doc, typ) ==
    IF doc # "" /\ Lower(doc) # "document" THEN << <<doc, typ>> >> ELSE <<>>

\* Data row, lines 938-953, read with the block structure its two 'else'
\* lines require: the fixed guess under 'if doc_idx is None or type_idx is
\* None', the header positions under its 'else'
DataRow(cols, cells) ==
    IF cells = <<>> THEN <<>>
    ELSE IF cols.doc = NoCol \/ cols.typ = NoCol
    THEN (IF Len(cells) >= 3 THEN KeepRow(cells[1], cells[3]) ELSE <<>>)
    ELSE IF cols.doc > Len(cells) \/ cols.typ > Len(cells) THEN <<>>
    ELSE KeepRow(cells[cols.doc], cells[cols.typ])

\* handle_endtag("tr") on the first n rows: the column positions and
\* self.rows afterwards
RECURSIVE ParserAfter(_, _)
ParserAfter(rows, n) ==
    IF n = 0 THEN [cols |-> [doc |-> NoCol, typ |-> NoCol], rows |-> <<>>]
    ELSE LET p == ParserAfter(rows, n - 1)
         IN IF rows[n].th /\ rows[n].cells # <<>>
            THEN [p EXCEPT !.cols = HeaderRow(p.cols, rows[n].cells)]
            ELSE [p EXCEPT !.rows = p.rows \o DataRow(p.cols, rows[n].cells)]

\* parser.feed(html); parser.rows
EdgarIndexRows(rows) == ParserAfter(rows, Len(rows)).rows

\* The statements indented under 'if doc_idx is None or type_idx is None:'
\* (line 942): line 943 is a comment and line 944 is back at the
\* indentation of the 'if', so the body is empty
BodyOfIf942 == <<>>

\* Python refuses a compound statement without a body, and an 'else'
\* (line 947) indented deeper than its 'if' (line 944)
IndentationErrorClass == "IndentationError"
handle_endtag_compiles == BodyOfIf942 # <<>>

\* Rows of an index page: the two header layouts, a header without a Type
\* label, data rows of five, four and two cells, an empty row
IndexRowSet ==
    { TRow(TRUE, <<"Seq", "Description", "Document", "Type", "Size">>),
      TRow(TRUE, <<"Document", "Description", "Type", "Size">>),
      TRow(TRUE, <<"Seq", "Document">>),
      TRow(FALSE, <<"1", "d", "a.htm", "8-K", "9">>),
      TRow(FALSE, <<"b.htm", "d", "EX-99", "9">>),
      TRow(FALSE, <<"2", "c.htm">>),
      TRow(FALSE, <<>>) }

(***************************************************************************)
(* Document selection: _list_primary_ex_htm_files, _list_8k_ex_files       *)
(***************************************************************************)
\* A document cell or a declared primary document: the file's stem and
\* extension, and what the cell shows after the name ("a.htm iXBRL")
Name(stem, ext, note) == [stem |-> stem, ext |-> ext, note |-> note]
NoName == Name("", "", "")

\* safe_filename: the first whitespace-separated token of the base name
safe_filename(n) == [n EXCEPT !.note = ""]

\* str.lower() on an extension
LowerExt(e) == IF e = "HTM" THEN "htm" ELSE IF e = "HTML" THEN "html" ELSE e

\* a test that takes '.html' as well
EndsWithHtmOrHtml(n) == LowerExt(n.ext) \in {"htm", "html"}

\* doc.lower().endswith(".htm")
EndsWithHtm(n) == LowerExt(n.ext) = "htm"

\* A type cell: the text up to and including a first '-', and the rest
\* str.upper() on a type cell
UpperType(t) ==
    [i \in 1..Len(t) |-> IF t[i] = "ex-" THEN "EX-" ELSE t[i]]

\* t in ("8-K", "8-K/A")
IsForm8K(t) == UpperType(t) \in { <<"8-", "K">>, <<"8-", "K/A">> }

\* t.startswith("EX-")
StartsWithEX(t) == t # <<>> /\ UpperType(t)[1] = "EX-"

\* seen / out: the first occurrence of every name, in order
RECURSIVE DedupNamesUpTo(_, _)
DedupNamesUpTo(q, n) ==
    IF n = 0 THEN <<>>
    ELSE IF \E j \in 1..(n - 1) : q[j] = q[n]
    THEN DedupNamesUpTo(q, n - 1)
    ELSE Append(DedupNamesUpTo(q, n - 1), q[n])

DedupNames(q) == DedupNamesUpTo(q, Len(q))

\* the rows as the loops see them: doc = safe_filename(doc)
SafeRows(rows) ==
    [i \in 1..Len(rows) |-> [doc |-> safe_filename(rows[i].doc),
                             typ |-> rows[i].typ]]

\* if primary and primary.lower().endswith(".htm"): wanted.append(primary)
\* else: the first row whose type is 8-K or 8-K/A and whose name ends in .htm
PrimaryOrFirst8K(primary, rows) ==
    LET p == safe_filename(primary)
        at == { i \in 1..Len(rows) :
                  IsForm8K(rows[i].typ) /\ EndsWithHtm(rows[i].doc) }
    IN IF p # NoName /\ EndsWithHtm(p) THEN <<p>>
       ELSE IF at = {} THEN <<>>
       ELSE <<rows[CHOOSE i \in at : \A j \in at : i <= j].doc>>

\* _list_primary_ex_htm_files, from parser.rows on
list_primary_ex_htm_files(primary, rows) ==
    LET sr == SafeRows(rows)
        ex == SelectSeq(sr, LAMBDA r : EndsWithHtm(r.doc) /\ StartsWithEX(r.typ))
    IN DedupNames(PrimaryOrFirst8K(primary, sr)
                  \o [i \in 1..Len(ex) |-> ex[i].doc])

\* _list_8k_ex_files, from parser.rows on
list_8k_ex_files(rows) ==
    LET sr == SafeRows(rows)
        keep == SelectSeq(sr, LAMBDA r : /\ r.doc # NoName
                                         /\ IsForm8K(r.typ) \/ StartsWithEX(r.typ))
    IN DedupNames([i \in 1..Len(keep) |-> keep[i].doc])

\* Declared primary documents: none, .htm in both cases, .html, another
\* extension
PrimaryNames ==
    { NoName, Name("p", "htm", ""), Name("p", "HTM", ""),
      Name("x", "html", ""), Name("e", "txt", "") }

\* Rows the index parser yields: the form and its amendment, exhibits with
\* and without .htm, a repeated name, the primary document, a graphic
SelRowSet ==
    { [doc |-> Name("k", "htm", "iXBRL"), typ |-> <<"8-", "K">>],
      [doc |-> Name("k", "pdf", ""), typ |-> <<"8-", "K/A">>],
      [doc |-> Name("p", "htm", ""), typ |-> <<"8-", "K">>],
      [doc |-> Name("a", "htm", ""), typ |-> <<"EX-", "99">>],
      [doc |-> Name("a", "htm", ""), typ |-> <<"ex-", "10">>],
      [doc |-> Name("h", "html", ""), typ |-> <<"EX-", "99">>],
      [doc |-> Name("g", "jpg", ""), typ |-> <<"GRAPHIC">>] }

(***************************************************************************)
(* download_filing: the manifest.json of a filing's directory              *)
(***************************************************************************)
\* json.dumps({"cik": ..., "accessionNumber": ..., "filingDate": ...,
\*             "form": ..., "primaryDocument": ...})
FilingManifest(f) ==
    [cik |-> f.cik10, accessionNumber |-> f.accession_no,
     filingDate |-> f.filing_date, form |-> f.form,
     primaryDocument |-> f.primary_document]

\* a download_filing that writes the manifest whether or not one exists
manifest_json_rewritten(existing, f, save_manifest, download_mode) ==
    IF save_manifest /\ download_mode = "all"
    THEN File(FilingManifest(f)) ELSE existing

\* if save_manifest and download_mode == "all":
\*     if not manifest_path.exists(): manifest_path.write_text(...)
manifest_json(existing, f, save_manifest, download_mode) ==
    IF save_manifest /\ download_mode = "all" /\ ~existing.exists
    THEN File(FilingManifest(f)) ELSE existing

\* What download_filing may find at base_dir/manifest.json: nothing, the
\* manifest an earlier run wrote for the filing when its primary document
\* was not known, a file with other content
ManifestsFound(f) ==
    { NoFile,
      File(FilingManifest([f EXCEPT !.primary_document = ""])),
      File(<<"x">>) }

FnStart ==
    /\ fn_pc = "ready"
    /\ fn_str = <<>>
    /\ fn_shards = <<>>
    /\ fn_out = <<>>
    /\ fn_err = NoErr

FnInit ==
    /\ FnStart
    /\ \/ /\ fn_op = "normalize"
          /\ fn_cik \in CikInputs
          /\ fn_refs = <<>> /\ fn_k = 1 /\ fn_lines = <<>>
          /\ fn_args = <<>>
       \/ /\ fn_op = "shard"
          /\ fn_refs \in SeqsUpTo(ShardRefs, MaxLines)
          /\ fn_k \in 1..MaxShards
          /\ fn_cik = <<>> /\ fn_lines = <<>>
          /\ fn_args = <<>>
       \/ /\ fn_op = "roundtrip"
          /\ fn_refs \in SeqsUpTo(DiscoveredRefs, MaxLines)
          /\ fn_cik = <<>> /\ fn_k = 1 /\ fn_lines = <<>>
          /\ fn_args = <<>>
       \/ /\ fn_op = "read"
          /\ fn_lines \in SeqsUpTo(LineSet, MaxLines)
          /\ fn_cik = <<>> /\ fn_refs = <<>> /\ fn_k = 1
          /\ fn_args = <<>>
       \/ /\ fn_op = "index"
          /\ fn_lines \in SeqsUpTo(IndexRowSet, MaxLines)
          /\ fn_cik = <<>> /\ fn_refs = <<>> /\ fn_k = 1
          /\ fn_args = <<>>
       \/ /\ fn_op \in {"primary_ex_htm", "8k_ex"}
          /\ \E p \in PrimaryNames : fn_refs = <<RefF(DsCik, 1, 1, "8-K", p)>>
          /\ fn_lines \in SeqsUpTo(SelRowSet, MaxLines)
          /\ fn_cik = <<>> /\ fn_k = 1
          /\ fn_args = <<>>
       \/ /\ fn_op = "manifest_json"
          /\ fn_refs \in { <<r>> : r \in Universe }
          /\ fn_args \in [save_manifest : BOOLEAN,
                          download_mode : DownloadModes,
                          existing : ManifestsFound(fn_refs[1])]
          /\ fn_cik = <<>> /\ fn_k = 1 /\ fn_lines = <<>>

\* No function applied, for the specifications that apply none.
FnQuiet ==
    /\ fn_op = "none"
    /\ fn_cik = <<>> /\ fn_refs = <<>> /\ fn_k = 1 /\ fn_lines = <<>>
    /\ fn_args = <<>>
    /\ FnStart

\* normalize_cik(x), and normalize_cik of its result
FnNormalize ==
    /\ fn_op = "normalize"
    /\ fn_pc = "ready"
    /\ IF CikHasDigits(fn_cik)
       THEN /\ fn_str' = <<normalize_cik(fn_cik),
                           normalize_cik(normalize_cik(fn_cik))>>
            /\ fn_pc' = "done"
            /\ UNCHANGED fn_err
       ELSE /\ fn_pc' = "raised"
            /\ fn_err' = Err(ValidationError, "normalize_cik", NoStatus)
            /\ UNCHANGED fn_str
    /\ UNCHANGED <<fn_op, fn_args, fn_cik, fn_refs, fn_k, fn_lines, fn_shards, fn_out>>
    /\ FnOnly

\* the shard filter of run_download, for each N of 1..K
FnShard ==
    /\ fn_op = "shard"
    /\ fn_pc = "ready"
    /\ fn_shards' = [n \in 1..fn_k |-> ShardKeep(fn_refs, n, fn_k)]
    /\ fn_pc' = "done"
    /\ UNCHANGED <<fn_op, fn_args, fn_cik, fn_refs, fn_k, fn_lines, fn_str, fn_out,
                   fn_err>>
    /\ FnOnly

\* write_targets_manifest(path, targets); read_targets_manifest(path)
FnRoundTrip ==
    /\ fn_op = "roundtrip"
    /\ fn_pc = "ready"
    /\ fn_lines' = write_targets_manifest(fn_refs).lines
    /\ IF ReadError(write_targets_manifest(fn_refs).lines) # NoErr
       THEN /\ fn_pc' = "raised"
            /\ fn_err' = ReadError(write_targets_manifest(fn_refs).lines)
            /\ UNCHANGED fn_out
       ELSE /\ fn_pc' = "done"
            /\ fn_out' = read_targets_manifest(write_targets_manifest(fn_refs))
            /\ UNCHANGED fn_err
    /\ UNCHANGED <<fn_op, fn_args, fn_cik, fn_refs, fn_k, fn_str, fn_shards>>
    /\ FnOnly

\* read_targets_manifest(path) on a file of any lines
FnRead ==
    /\ fn_op = "read"
    /\ fn_pc = "ready"
    /\ IF ReadError(fn_lines) # NoErr
       THEN /\ fn_pc' = "raised"
            /\ fn_err' = ReadError(fn_lines)
            /\ UNCHANGED fn_out
       ELSE /\ fn_pc' = "done"
            /\ fn_out' = read_targets_manifest(ManifestFile(fn_lines))
            /\ UNCHANGED fn_err
    /\ UNCHANGED <<fn_op, fn_args, fn_cik, fn_refs, fn_k, fn_lines, fn_str, fn_shards>>
    /\ FnOnly

\* _EdgarIndexParser().feed(html) on the rows of a page: the module that
\* defines handle_endtag has to compile first
FnIndex ==
    /\ fn_op = "index"
    /\ fn_pc = "ready"
    /\ IF handle_endtag_compiles
       THEN /\ fn_pc' = "done"
            /\ fn_out' = EdgarIndexRows(fn_lines)
            /\ UNCHANGED fn_err
       ELSE /\ fn_pc' = "raised"
            /\ fn_err' = Err(IndentationErrorClass, "handle_endtag", NoStatus)
            /\ UNCHANGED fn_out
    /\ UNCHANGED <<fn_op, fn_args, fn_cik, fn_refs, fn_k, fn_lines, fn_str, fn_shards>>
    /\ FnOnly

\* the names download_filing gets in the two selective modes, once the
\* index page is parsed
FnSelect ==
    /\ fn_op \in {"primary_ex_htm", "8k_ex"}
    /\ fn_pc = "ready"
    /\ fn_out' = IF fn_op = "8k_ex" THEN list_8k_ex_files(fn_lines)
                 ELSE list_primary_ex_htm_files(fn_refs[1].primary_document,
                                                fn_lines)
    /\ fn_pc' = "done"
    /\ UNCHANGED <<fn_op, fn_args, fn_cik, fn_refs, fn_k, fn_lines, fn_str, fn_shards,
                   fn_err>>
    /\ FnOnly

\* download_filing up to the manifest: fn_out is the file afterwards
FnManifest ==
    /\ fn_op = "manifest_json"
    /\ fn_pc = "ready"
    /\ fn_out' = <<manifest_json(fn_args.existing, fn_refs[1],
                                 fn_args.save_manifest,
                                 fn_args.download_mode)>>
    /\ fn_pc' = "done"
    /\ UNCHANGED <<fn_op, fn_args, fn_cik, fn_refs, fn_k, fn_lines, fn_str,
                   fn_shards, fn_err>>
    /\ FnOnly

FnNext ==
    \/ FnNormalize
    \/ FnShard
    \/ FnRoundTrip
    \/ FnRead
    \/ FnIndex
    \/ FnSelect
    \/ FnManifest

(***************************************************************************)
(* run_download: the main thread                                           *)
(***************************************************************************)
\* The last response of a whole transport call, one status of each kind
FinalStatuses == {200, 400, 404}

\* How a whole transport call can end, by its last response.
FetchResults(op) ==
    { [kind |-> "raised", status |-> NoStatus,
       err |-> Err(TransportFailureError, "after_retries", NoStatus)] }
    \cup
    { [kind |-> "raised", status |-> s,
       err |-> Err(HttpStatusError, "raise_for_status", s)] :
        s \in { x \in FinalStatuses : Classify(op, x) = "http_error" } }
    \cup
    { [kind |-> "skip404", status |-> s, err |-> NoErr] :
        s \in { x \in FinalStatuses : Classify(op, x) = "skip" } }
    \cup
    { [kind |-> "ok", status |-> s, err |-> NoErr] :
        s \in { x \in FinalStatuses : Classify(op, x) = "ok" } }
    \cup
    (IF op = "json"
     THEN { [kind |-> "raised", status |-> 200,
             err |-> Err("JSONDecodeError", "resp_json", NoStatus)] }
     ELSE {})
    \cup
    (IF op = "file"
     THEN { [kind |-> "raised", status |-> 200,
             err |-> Err("RequestException", "iter_content", NoStatus)] }
     ELSE {})

FetchErrors(op) == { r.err : r \in { x \in FetchResults(op) : x.kind = "raised" } }

CaughtUnlessRuntimeError(e) == e.cls # "RuntimeError"

\* except Exception as e: every exception a download raises is one
Caught(e) == e.cls \in {"RuntimeError", "HTTPError", "RequestException",
                        "JSONDecodeError", "ValueError", "FileNotFoundError"}

RunStart ==
    /\ run_pc = "start"
    /\ run_err = NoErr
    /\ ciks10 = <<>>
    /\ cidx = 0
    /\ targets = <<>>
    /\ sub_targets = <<>>
    /\ sub_found = <<>>
    /\ futs = <<>>
    /\ ok = 0
    /\ failed = 0
    /\ total_targets = 0
    /\ companies_done = 0
    /\ companies_failed = 0
    /\ cik_failed = 0
    /\ http_issued = FALSE
    /\ run_files = {}
    /\ run_parts = {}
    /\ run_dirs = {}
    /\ manifest_read = FALSE
    /\ manifest_written = FALSE
    /\ summary = NoSummary

\* No run in progress, for the specifications that do not run one.
RunQuiet ==
    /\ cfg = Config(<<>>, <<>>, "all", "cik", NoDate, NoShard, FALSE, FALSE,
                    FALSE, 0)
    /\ upstream = {}
    /\ manifest = NoManifest
    /\ run_pc = "start"
    /\ run_err = NoErr
    /\ ciks10 = <<>>
    /\ cidx = 0
    /\ targets = <<>>
    /\ sub_targets = <<>>
    /\ sub_found = <<>>
    /\ futs = <<>>
    /\ ok = 0
    /\ failed = 0
    /\ total_targets = 0
    /\ companies_done = 0
    /\ companies_failed = 0
    /\ cik_failed = 0
    /\ http_issued = FALSE
    /\ run_files = {}
    /\ run_parts = {}
    /\ run_dirs = {}
    /\ manifest_read = FALSE
    /\ manifest_written = FALSE
    /\ summary = NoSummary

\* raise: the exception leaves run_download
Raise(e) ==
    /\ run_pc' = "raised"
    /\ run_err' = e

\* return {...}
Return(o, f, t, cd, cf) ==
    /\ run_pc' = "returned"
    /\ summary' = [returned |-> TRUE, ok |-> o, failed |-> f, total |-> t,
                   companies_total |-> Len(ciks10), companies_done |-> cd,
                   companies_failed |-> cf]

\* ciks10 = [normalize_cik(c) ...]; the mode checks; build_session
RunValidate ==
    /\ run_pc = "start"
    /\ IF \E i \in 1..Len(cfg.ciks) : ~CikHasDigits(cfg.ciks[i])
       THEN Raise(Err(ValidationError, "normalize_cik", NoStatus))
            /\ UNCHANGED <<ciks10, cidx>>
       ELSE IF cfg.ciks = <<>>
       THEN Raise(Err(ValidationError, "no_ciks", NoStatus))
            /\ UNCHANGED <<ciks10, cidx>>
       ELSE IF cfg.download_mode \notin DownloadModes
       THEN Raise(Err(ValidationError, "download_mode", NoStatus))
            /\ ciks10' = NormalizeAll(cfg.ciks)
            /\ UNCHANGED cidx
       ELSE IF cfg.source_mode \notin SourceModes
       THEN Raise(Err(ValidationError, "source_mode", NoStatus))
            /\ ciks10' = NormalizeAll(cfg.ciks)
            /\ UNCHANGED cidx
       ELSE IF ~UserAgentOk(cfg.user_agent)
       THEN Raise(Err(ValidationError, "build_session", NoStatus))
            /\ ciks10' = NormalizeAll(cfg.ciks)
            /\ UNCHANGED cidx
       ELSE /\ ciks10' = NormalizeAll(cfg.ciks)
            /\ cidx' = 1
            /\ run_pc' = IF cfg.source_mode = "master_index"
                         THEN "m_load" ELSE "c_scan"
            /\ UNCHANGED run_err
    /\ UNCHANGED <<sub_targets, sub_found>>
    /\ UNCHANGED <<cfg, upstream, targets, futs, ok, failed, total_targets,
                   companies_done, companies_failed, cik_failed, http_issued,
                   run_files, run_parts, run_dirs, manifest, manifest_read,
                   manifest_written, summary>>
    /\ RunOnly

\* if reuse_targets_manifest and manifest_path.exists():
\*     targets = read_targets_manifest(manifest_path)
MLoadManifest ==
    /\ run_pc = "m_load"
    /\ cfg.reuse_targets_manifest /\ manifest.exists
    /\ manifest_read' = TRUE
    /\ IF ReadError(manifest.lines) # NoErr
       THEN Raise(ReadError(manifest.lines)) /\ UNCHANGED targets
       ELSE /\ targets' = read_targets_manifest(manifest)
            /\ run_pc' = "m_shard"
            /\ UNCHANGED run_err
    /\ UNCHANGED <<sub_targets, sub_found>>
    /\ UNCHANGED <<cfg, upstream, ciks10, cidx, futs, ok, failed,
                   total_targets, companies_done, companies_failed,
                   cik_failed, http_issued, run_files, run_parts, run_dirs,
                   manifest, manifest_written, summary>>
    /\ RunOnly

\* else: targets = collect_8k_from_master_index(...): the start date is
\* parsed, then every quarter's index is fetched (a quarter that cannot be
\* fetched is skipped) and its rows filtered, de-duplicated and sorted.
MCollect(rows) ==
    /\ run_pc = "m_load"
    /\ ~(cfg.reuse_targets_manifest /\ manifest.exists)
    /\ IF cfg.start_date.given /\ ~cfg.start_date.valid
       THEN /\ Raise(Err(ValidationError, "parse_date", NoStatus))
            /\ UNCHANGED <<targets, http_issued>>
       ELSE /\ http_issued' = TRUE
            /\ targets' =
                 SortRefs(DedupRefs(WithoutPrimary(
                    OnOrAfter(SelectSeq(rows,
                        LAMBDA r : \E i \in 1..Len(ciks10) :
                                      ciks10[i] = r.cik10),
                      cfg.start_date))))
            /\ run_pc' = "m_shard"
            /\ UNCHANGED run_err
    /\ UNCHANGED <<sub_targets, sub_found>>
    /\ UNCHANGED <<cfg, upstream, ciks10, cidx, futs, ok, failed, total_targets,
                   companies_done, companies_failed, cik_failed, run_files,
                   run_parts, run_dirs, manifest, manifest_read,
                   manifest_written, summary>>
    /\ RunOnly

\* if shard: the spec is parsed and checked, then the targets are filtered
MShard ==
    /\ run_pc = "m_shard"
    /\ IF cfg.shard = NoShard
       THEN /\ run_pc' = "m_write"
            /\ UNCHANGED <<run_err, targets>>
       ELSE IF ShardMatch(cfg.shard) = {}
       THEN /\ Raise(Err(ValidationError, "shard_format", NoStatus))
            /\ UNCHANGED targets
       ELSE LET m == CHOOSE x \in ShardMatch(cfg.shard) : TRUE
                n == IntOf(m[1])
                k == IntOf(m[2])
            IN IF k <= 0 \/ n <= 0 \/ n > k
               THEN /\ Raise(Err(ValidationError, "shard_values", NoStatus))
                    /\ UNCHANGED targets
               ELSE /\ targets' = ShardKeep(targets, n, k)
                    /\ run_pc' = "m_write"
                    /\ UNCHANGED run_err
    /\ UNCHANGED <<sub_targets, sub_found>>
    /\ UNCHANGED <<cfg, upstream, ciks10, cidx, futs, ok, failed, total_targets,
                   companies_done, companies_failed, cik_failed, http_issued,
                   run_files, run_parts, run_dirs, manifest, manifest_read,
                   manifest_written, summary>>
    /\ RunOnly

\* the manifest is always written; then manifest-only returns, an empty
\* target list returns, and otherwise the batch is submitted
MWrite ==
    /\ run_pc = "m_write"
    /\ manifest' = write_targets_manifest(targets)
    /\ manifest_written' = TRUE
    /\ run_dirs' = run_dirs \cup {<<"manifest_parent">>}
    /\ total_targets' = Len(targets)
    /\ IF cfg.manifest_only
       THEN Return(0, 0, Len(targets), Len(ciks10), 0)
       ELSE IF targets = <<>>
       THEN Return(ok, failed, Len(targets), Len(ciks10), 0)
       ELSE run_pc' = "submit" /\ UNCHANGED summary
    /\ UNCHANGED <<sub_targets, sub_found>>
    /\ UNCHANGED <<cfg, upstream, run_err, ciks10, cidx, targets, futs, ok, failed,
                   companies_done, companies_failed, cik_failed, http_issued,
                   run_files, run_parts, manifest_read>>
    /\ RunOnly

\* The rows upstream lists for one company
RowsOf(c) == SeqsUpTo({ r \in upstream : r.cik10 = c }, MaxTargets)

\* the company is finished: the next one is scanned, or the summary returned
CompanyDone(cf, tt) ==
    /\ companies_done' = companies_done + 1
    /\ companies_failed' = IF cf > 0 THEN companies_failed + 1
                           ELSE companies_failed
    /\ IF cidx < Len(ciks10)
       THEN /\ cidx' = cidx + 1
            /\ run_pc' = "c_scan"
            /\ UNCHANGED summary
       ELSE /\ Return(ok, failed, tt, companies_done + 1,
                      IF cf > 0 THEN companies_failed + 1
                      ELSE companies_failed)
            /\ UNCHANGED cidx

\* a list that is trusted whenever it is not empty
SubmissionsNotEmpty(sub, sd) == sub # <<>>

\* sub_earliest = min(parsed dates of sub_targets, default=None);
\* if sub_earliest and sub_earliest <= start_dt
SubmissionsReachBack(sub, sd) ==
    \E i \in 1..Len(sub) : sub[i].filing_date <= sd.day

\* if start_date: the date is parsed, the submissions record fetched and
\* filtered, and its targets kept when they reach back to the start date
CSubmissions(out, rows) ==
    /\ run_pc = "c_scan"
    /\ cfg.start_date.given
    /\ IF ~cfg.start_date.valid
       THEN /\ Raise(Err(ValidationError, "parse_date", NoStatus))
            /\ UNCHANGED <<targets, sub_targets, sub_found, http_issued>>
       ELSE /\ http_issued' = TRUE
            /\ IF out # NoErr
               THEN Raise(out) /\ UNCHANGED <<targets, sub_targets, sub_found>>
               ELSE LET sub == OnOrAfter(SortRefs(DedupRefs(rows)),
                                         cfg.start_date)
                    IN /\ UNCHANGED run_err
                       /\ sub_targets' = sub
                       /\ sub_found' = SortRefs(DedupRefs(rows))
                       /\ IF SubmissionsReachBack(sub, cfg.start_date)
                          THEN targets' = sub /\ run_pc' = "c_batch"
                          ELSE UNCHANGED targets /\ run_pc' = "c_browse"
    /\ UNCHANGED <<cfg, upstream, ciks10, cidx, futs, ok, failed, total_targets,
                   companies_done, companies_failed, cik_failed, run_files,
                   run_parts, run_dirs, manifest, manifest_read,
                   manifest_written, summary>>
    /\ RunOnly

\* targets = collect_8k_targets_for_cik(...): the listing pages are fetched
\* and their rows filtered, de-duplicated and sorted
CBrowse(out, rows) ==
    /\ \/ run_pc = "c_browse"
       \/ run_pc = "c_scan" /\ ~cfg.start_date.given
    /\ http_issued' = TRUE
    /\ IF out # NoErr
       THEN Raise(out) /\ UNCHANGED targets
       ELSE /\ targets' = SortRefs(DedupRefs(WithoutPrimary(
                             OnOrAfter(rows, cfg.start_date))))
            /\ run_pc' = "c_batch"
            /\ UNCHANGED run_err
    /\ UNCHANGED <<sub_targets, sub_found>>
    /\ UNCHANGED <<cfg, upstream, ciks10, cidx, futs, ok, failed, total_targets,
                   companies_done, companies_failed, cik_failed, run_files,
                   run_parts, run_dirs, manifest, manifest_read,
                   manifest_written, summary>>
    /\ RunOnly

\* total_targets += len(targets); cik_failed = 0; if targets: ... else: ...
CBatch ==
    /\ run_pc = "c_batch"
    /\ total_targets' = total_targets + Len(targets)
    /\ cik_failed' = 0
    /\ IF targets # <<>>
       THEN /\ run_pc' = "submit"
            /\ UNCHANGED <<cidx, companies_done, companies_failed, summary>>
       ELSE CompanyDone(0, total_targets + Len(targets))
    /\ UNCHANGED <<sub_targets, sub_found>>
    /\ UNCHANGED <<cfg, upstream, run_err, ciks10, targets, futs, ok, failed,
                   http_issued, run_files, run_parts, run_dirs, manifest,
                   manifest_read, manifest_written>>
    /\ RunOnly

(***************************************************************************)
(* The worker pool: ThreadPoolExecutor, download_filing, as_completed      *)
(***************************************************************************)
\* a task that counts as drained from the moment it is submitted
NewFutureDrained(f) ==
    [filing |-> f, pc |-> "queued", names |-> <<>>, idx |-> 1, count |-> 0,
     err |-> NoErr, status |-> NoStatus, drained |-> TRUE,
     writing |-> FALSE]

NewFuture(f) ==
    [filing |-> f, pc |-> "queued", names |-> <<>>, idx |-> 1, count |-> 0,
     err |-> NoErr, status |-> NoStatus, drained |-> FALSE,
     writing |-> FALSE]

\* a pool with a thread for every task
WorkersUnbounded == Len(futs)

\* max_workers=max(1, int(max_workers))
Workers == IF cfg.max_workers > 1 THEN cfg.max_workers ELSE 1

Running(i) == futs[i].pc \in {"index", "html", "docs"}

\* base_dir = out_dir / filing.cik10 / f"{filing.filing_date}_{filing.accession_no}"
BaseDir(f) == <<f.cik10, f.filing_date, f.accession_no>>
DocPath(f, name) == Append(BaseDir(f), name)

\* The document names a filing's index can yield
NameLists == { <<>>, <<"a.htm">>, <<"a.htm", "b.htm">> }

\* ex.submit(download_filing, ...) for filing in targets
SubmitOne ==
    /\ run_pc = "submit"
    /\ futs' = Append(futs, NewFuture(targets[Len(futs) + 1]))
    /\ run_pc' = IF Len(futs) + 1 = Len(targets) THEN "drain" ELSE "submit"
    /\ UNCHANGED <<sub_targets, sub_found>>
    /\ UNCHANGED <<cfg, upstream, run_err, ciks10, cidx, targets, ok, failed,
                   total_targets, companies_done, companies_failed,
                   cik_failed, http_issued, run_files, run_parts, run_dirs,
                   manifest, manifest_read, manifest_written, summary>>
    /\ RunOnly

\* a free worker takes the oldest queued task: download_filing creates the
\* filing's directory and, when asked to, its manifest.json
FStart(i) ==
    /\ futs[i].pc = "queued"
    /\ \A j \in 1..(i - 1) : futs[j].pc # "queued"
    /\ Cardinality({ j \in 1..Len(futs) : Running(j) }) < Workers
    /\ futs' = [futs EXCEPT ![i].pc = "index"]
    /\ run_dirs' = run_dirs \cup {BaseDir(futs[i].filing)}
    /\ run_files' =
         IF cfg.save_manifest /\ cfg.download_mode = "all"
         THEN run_files \cup {DocPath(futs[i].filing, "manifest.json")}
         ELSE run_files
    /\ UNCHANGED <<sub_targets, sub_found>>
    /\ UNCHANGED <<cfg, upstream, run_pc, run_err, ciks10, cidx, targets, ok, failed,
                   total_targets, companies_done, companies_failed,
                   cik_failed, http_issued, run_parts, manifest,
                   manifest_read, manifest_written, summary>>
    /\ RunOnly

\* get_filing_index_items, and in the two selective modes
\* _choose_index_html_name
FIndex(i, res, names, has_html) ==
    /\ futs[i].pc = "index"
    /\ http_issued' = TRUE
    /\ futs' =
         IF res.kind = "raised"
         THEN [futs EXCEPT ![i].pc = "fail", ![i].err = res.err]
         ELSE IF cfg.download_mode = "all"
         THEN [futs EXCEPT ![i].pc = "docs", ![i].names = names]
         ELSE IF ~has_html
         THEN [futs EXCEPT ![i].pc = "fail",
                           ![i].err = Err(MissingIndexError,
                                          "choose_index_html", NoStatus)]
         ELSE [futs EXCEPT ![i].pc = "html"]
    /\ UNCHANGED <<sub_targets, sub_found>>
    /\ UNCHANGED <<cfg, upstream, run_pc, run_err, ciks10, cidx, targets, ok, failed,
                   total_targets, companies_done, companies_failed,
                   cik_failed, run_files, run_parts, run_dirs, manifest,
                   manifest_read, manifest_written, summary>>
    /\ RunOnly

\* the filing index page is fetched and parsed, the documents selected
FHtml(i, res, names) ==
    /\ futs[i].pc = "html"
    /\ http_issued' = TRUE
    /\ futs' =
         IF res.kind = "raised"
         THEN [futs EXCEPT ![i].pc = "fail", ![i].err = res.err]
         ELSE [futs EXCEPT ![i].pc = "docs", ![i].names = names]
    /\ UNCHANGED <<sub_targets, sub_found>>
    /\ UNCHANGED <<cfg, upstream, run_pc, run_err, ciks10, cidx, targets, ok, failed,
                   total_targets, companies_done, companies_failed,
                   cik_failed, run_files, run_parts, run_dirs, manifest,
                   manifest_read, manifest_written, summary>>
    /\ RunOnly

\* a loop that goes on to the next name without counting
NextNameUncounted(i) == [futs EXCEPT ![i].idx = @ + 1]

\* for name in names: ...; downloaded += 1
NextName(i) == [futs EXCEPT ![i].idx = @ + 1, ![i].count = @ + 1]

\* sec_download_file(session, url, target, ...) up to open(tmp_path, "wb"):
\* the target is skipped when it is there, the request is made, a 404 is
\* passed over, a failure leaves the task; on a good answer the '.part' file
\* is created (or truncated) and the task is writing it
FDoc(i, res) ==
    /\ futs[i].pc = "docs"
    /\ ~futs[i].writing
    /\ futs[i].idx <= Len(futs[i].names)
    /\ LET path == DocPath(futs[i].filing, futs[i].names[futs[i].idx])
           next == NextName(i)
       IN IF path \in run_files
          THEN /\ futs' = [next EXCEPT ![i].status = NoStatus]
               /\ UNCHANGED <<http_issued, run_files, run_parts>>
          ELSE /\ http_issued' = TRUE
               /\ CASE res.kind = "skip404" ->
                         /\ futs' = [next EXCEPT ![i].status = res.status]
                         /\ UNCHANGED <<run_files, run_parts>>
                    [] res.kind = "ok" ->
                         /\ futs' = [futs EXCEPT ![i].status = res.status,
                                                 ![i].writing = TRUE]
                         /\ run_parts' = run_parts \cup {path}
                         /\ UNCHANGED run_files
                    [] res.kind = "raised" ->
                         /\ futs' = [futs EXCEPT ![i].pc = "fail",
                                                 ![i].err = res.err,
                                                 ![i].status = res.status]
                         /\ run_parts' =
                              IF res.err.at = "iter_content"
                              THEN run_parts \cup {path} ELSE run_parts
                         /\ UNCHANGED run_files
    /\ UNCHANGED <<sub_targets, sub_found>>
    /\ UNCHANGED <<cfg, upstream, run_pc, run_err, ciks10, cidx, targets, ok, failed,
                   total_targets, companies_done, companies_failed,
                   cik_failed, run_dirs, manifest, manifest_read,
                   manifest_written, summary>>
    /\ RunOnly

\* os.replace(tmp_path, target_path); return; downloaded += 1
\* the '.part' file becomes the target; when another task has moved it away
\* meanwhile, os.replace raises FileNotFoundError
FReplace(i) ==
    /\ futs[i].pc = "docs"
    /\ futs[i].writing
    /\ LET path == DocPath(futs[i].filing, futs[i].names[futs[i].idx])
       IN IF path \in run_parts
          THEN /\ futs' = [NextName(i) EXCEPT ![i].writing = FALSE]
               /\ run_files' = run_files \cup {path}
               /\ run_parts' = run_parts \ {path}
          ELSE /\ futs' = [futs EXCEPT ![i].pc = "fail",
                                       ![i].writing = FALSE,
                                       ![i].err = Err("FileNotFoundError",
                                                      "os_replace", NoStatus)]
               /\ UNCHANGED <<run_files, run_parts>>
    /\ UNCHANGED <<sub_targets, sub_found>>
    /\ UNCHANGED <<cfg, upstream, run_pc, run_err, ciks10, cidx, targets, ok,
                   failed, total_targets, companies_done, companies_failed,
                   cik_failed, http_issued, run_dirs, manifest, manifest_read,
                   manifest_written, summary>>
    /\ RunOnly

\* return filing, downloaded
FReturn(i) ==
    /\ futs[i].pc = "docs"
    /\ futs[i].idx > Len(futs[i].names)
    /\ futs' = [futs EXCEPT ![i].pc = "ok"]
    /\ UNCHANGED <<sub_targets, sub_found>>
    /\ UNCHANGED <<cfg, upstream, run_pc, run_err, ciks10, cidx, targets, ok, failed,
                   total_targets, companies_done, companies_failed,
                   cik_failed, http_issued, run_files, run_parts, run_dirs,
                   manifest, manifest_read, manifest_written, summary>>
    /\ RunOnly

\* for fut in as_completed(futs): try: fut.result(); ok += 1
\* except Exception: failed += 1
Drain(i) ==
    /\ run_pc = "drain"
    /\ futs[i].pc \in {"ok", "fail"}
    /\ ~futs[i].drained
    /\ futs' = [futs EXCEPT ![i].drained = TRUE]
    /\ IF futs[i].pc = "ok"
       THEN /\ ok' = ok + 1
            /\ UNCHANGED <<failed, cik_failed, run_pc, run_err>>
       ELSE IF Caught(futs[i].err)
       THEN /\ failed' = failed + 1
            /\ cik_failed' = cik_failed + 1
            /\ UNCHANGED <<ok, run_pc, run_err>>
       ELSE /\ Raise(futs[i].err)
            /\ UNCHANGED <<ok, failed, cik_failed>>
    /\ UNCHANGED <<sub_targets, sub_found>>
    /\ UNCHANGED <<cfg, upstream, ciks10, cidx, targets, total_targets,
                   companies_done, companies_failed, http_issued, run_files,
                   run_parts, run_dirs, manifest, manifest_read,
                   manifest_written, summary>>
    /\ RunOnly

\* every future is drained and the pool shut down
BatchDone ==
    /\ run_pc = "drain"
    /\ \A i \in 1..Len(futs) : futs[i].drained
    /\ futs' = <<>>
    /\ IF cfg.source_mode = "master_index"
       THEN /\ Return(ok, failed, total_targets, Len(ciks10), 0)
            /\ UNCHANGED <<cidx, companies_done, companies_failed>>
       ELSE CompanyDone(cik_failed, total_targets)
    /\ UNCHANGED <<sub_targets, sub_found>>
    /\ UNCHANGED <<cfg, upstream, run_err, ciks10, targets, ok, failed, total_targets,
                   cik_failed, http_issued, run_files, run_parts, run_dirs,
                   manifest, manifest_read, manifest_written>>
    /\ RunOnly

\* The rows upstream lists for the company being scanned
CompanyRows ==
    IF run_pc \in {"c_scan", "c_browse"} THEN RowsOf(ciks10[cidx]) ELSE {}

RunNext ==
    \/ RunValidate
    \/ MLoadManifest
    \/ \E rows \in SeqsUpTo(upstream, MaxTargets) : MCollect(rows)
    \/ MShard
    \/ MWrite
    \/ \E out \in FetchErrors("json") \cup {NoErr} :
       \E rows \in CompanyRows : CSubmissions(out, rows)
    \/ \E out \in FetchErrors("text") \cup {NoErr} :
       \E rows \in CompanyRows : CBrowse(out, rows)
    \/ CBatch
    \/ SubmitOne
    \/ \E i \in 1..Len(futs) : FStart(i)
    \/ \E i \in 1..Len(futs) : \E res \in FetchResults("json") :
       \E names \in NameLists : \E h \in BOOLEAN : FIndex(i, res, names, h)
    \/ \E i \in 1..Len(futs) : \E res \in FetchResults("text") :
       \E names \in NameLists : FHtml(i, res, names)
    \/ \E i \in 1..Len(futs) : \E res \in FetchResults("file") : FDoc(i, res)
    \/ \E i \in 1..Len(futs) : FReplace(i)
    \/ \E i \in 1..Len(futs) : FReturn(i)
    \/ \E i \in 1..Len(futs) : Drain(i)
    \/ BatchDone

\* run_download on a few configurations, with every filing upstream
InitRun ==
    /\ RLQuiet /\ TrQuiet /\ DsQuiet /\ FnQuiet /\ RunStart
    /\ cfg \in RunConfigs
    /\ upstream = Universe
    /\ manifest \in (IF cfg.reuse_targets_manifest THEN Manifests(upstream)
                     ELSE {NoManifest})

SpecRun == InitRun /\ [][RunNext]_vars

\* run_download on every configuration, with one filing upstream
InitCfg ==
    /\ RLQuiet /\ TrQuiet /\ DsQuiet /\ FnQuiet /\ RunStart
    /\ cfg \in Configs
    /\ upstream = { r \in Universe : r.accession_no = 2 }
    /\ manifest \in (IF cfg.reuse_targets_manifest THEN Manifests(upstream)
                     ELSE {NoManifest})

SpecCfg == InitCfg /\ [][RunNext]_vars

InitTr == RLQuiet /\ TrInit /\ RunQuiet /\ DsQuiet /\ FnQuiet

SpecTr == InitTr /\ [][TrNext]_vars

InitRL == RLInit /\ TrQuiet /\ RunQuiet /\ DsQuiet /\ FnQuiet

SpecRL == InitRL /\ [][RLNext]_vars

\* What a thread inside wait() does next without waiting for the lock
WaitRun(t) ==
    \/ WaitReadNow(t)
    \/ WaitSleep(t)
    \/ WaitWake(t)
    \/ WaitStamp(t)
    \/ WaitRelease(t)
    \/ WaitReturn(t)

\* The limiter under a scheduler that lets every thread run, a lock that is
\* fair (a thread that finds the lock free again and again gets it) and a
\* clock that goes on; callers are free not to call
SpecRLFair ==
    /\ InitRL
    /\ [][RLNext]_vars
    /\ WF_vars(Tick)
    /\ \A t \in Threads : WF_vars(WaitRun(t)) /\ SF_vars(WaitAcquire(t))

InitDisc == RLQuiet /\ TrQuiet /\ RunQuiet /\ DsInit /\ FnQuiet

SpecDisc == InitDisc /\ [][DiscNext]_vars

InitWalk == RLQuiet /\ TrQuiet /\ RunQuiet /\ WkInit /\ FnQuiet

\* The paginated-listing walker alone; a walker that can take a step takes
\* it
SpecWalk == InitWalk /\ [][WalkNext]_vars /\ WF_vars(WalkNext)

InitFn == RLQuiet /\ TrQuiet /\ RunQuiet /\ DsQuiet /\ FnInit

SpecFn == InitFn /\ [][FnNext]_vars

(***************************************************************************)
(* C1                                                                      *)
(***************************************************************************)
\* C1 (as stated): with min_interval > 0 any two returns of wait(), in the
\* order they occur across all threads, are at least min_interval apart, and
\* with min_interval <= 0 wait() takes no lock and does not sleep.
C1_ReturnsSpaced ==
    /\ ~LimiterDisabled(min_interval_sec) =>
         \A i \in 1..Len(returns) : \A j \in 1..Len(returns) :
            i < j => returns[j] - returns[i] >= min_interval_sec
    /\ LimiterDisabled(min_interval_sec) => lock_takes = 0 /\ rl_sleeps = 0

\* C1 (amended): with min_interval > 0 any two permits, i.e. the instants
\* wait() stamps into _last under the lock, are at least min_interval apart
\* in the order they occur across all threads, and every wait() has returned
\* no earlier than its own permit; with min_interval <= 0 wait() returns
\* without taking the lock, sleeping or stamping.
C1_PermitsSpaced ==
    /\ ~LimiterDisabled(min_interval_sec) =>
         /\ \A i \in 1..Len(permits) : \A j \in 1..Len(permits) :
               i < j => permits[j] - permits[i] >= min_interval_sec
         /\ Len(returns) <= Len(permits)
         /\ \A i \in 1..Len(returns) :
               \E j \in 1..Len(permits) : permits[j] <= returns[i]
    /\ LimiterDisabled(min_interval_sec) =>
         /\ lock_takes = 0 /\ rl_sleeps = 0 /\ permits = <<>>
         /\ \A t \in Threads : rl_pc[t] = "idle"

\* Two threads have both been permitted by an enabled limiter.
C1_Witness ==
    /\ min_interval_sec > 0
    /\ Len(permits) >= 2
    /\ Len(returns) >= 2
    /\ \E i \in 1..Len(returns) : \E j \in 1..Len(returns) :
          i < j /\ returns[j] - returns[i] < min_interval_sec
    /\ rl_sleeps >= 1

(***************************************************************************)
(* C2                                                                      *)
(***************************************************************************)
C2_AttemptsAndWaits ==
    tr_op \in {"json", "text", "bytes", "file"} =>
       /\ tr_gets <= 10
       /\ tr_pc = "get" => tr_waits = tr_gets + 1
       /\ tr_pc \notin {"get", "crashed"} => tr_waits = tr_gets
       /\ tr_pc = "crashed" => tr_waits \in {tr_gets, tr_gets + 1}
       /\ (tr_sleeps = 10 /\ tr_pc \in {"returned", "raised"}) =>
             /\ tr_pc = "raised"
             /\ tr_err = Err("RuntimeError", "after_retries", NoStatus)
             /\ tr_gets = 10

\* C2 (as stated): every transport operation makes at most 10 attempts per
\* call, calls wait() exactly once before each attempt, and after 10 failed
\* attempts raises an error whose kind differs from the HTTP status error,
\* the missing filing-index error and the validation error.
C2_DistinctFromEveryKind ==
    /\ C2_AttemptsAndWaits
    /\ (tr_pc = "raised" /\ tr_err.at = "after_retries") =>
          tr_err.cls \notin {HttpStatusError, MissingIndexError,
                             ValidationError}

\* C2 (amended): every transport operation makes at most 10 attempts per
\* call, calls wait() exactly once before each attempt, and after 10 failed
\* attempts raises a RuntimeError, whose class differs from the HTTP status
\* error and the validation error; the missing filing-index error is a
\* RuntimeError too.
C2_DistinctFromHttpAndValidation ==
    /\ C2_AttemptsAndWaits
    /\ (tr_pc = "raised" /\ tr_err.at = "after_retries") =>
          /\ tr_err.cls \notin {HttpStatusError, ValidationError}
          /\ tr_err.cls = MissingIndexError

\* Ten attempts, each after one wait(), all failed: the call has raised.
C2_Witness ==
    /\ tr_pc = "raised"
    /\ tr_err.at = "after_retries"
    /\ tr_gets = 10
    /\ tr_waits = 10
    /\ tr_sleeps = 10

(***************************************************************************)
(* C3                                                                      *)
(***************************************************************************)
C3_Retried(s) == s = NetFail \/ s \in {403, 429, 500, 502, 503, 504}

C3_RetryStep ==
    C3_Retried(tr_status') =>
       /\ tr_sleeps' = tr_sleeps + 1
       /\ attempt' = attempt + 1
       /\ tr_pc' = "loop"
       /\ tr_err' = NoErr

C3_RaiseStep ==
    /\ tr_pc' = "raised"
    /\ tr_err' = Err("HTTPError", "raise_for_status", tr_status')
    /\ tr_sleeps' = tr_sleeps
    /\ attempt' = attempt
    /\ tr_gets' = tr_gets + 1

\* after a backoff another attempt is made while attempts remain, and none
\* after an exception
C3_LoopStep ==
    /\ (tr_pc = "loop" /\ attempt < 10 /\ tr_pc' # "crashed" /\ tr_pc' # tr_pc)
          => (tr_pc' = "get" /\ tr_waits' = tr_waits + 1)
    /\ (tr_pc = "raised" /\ tr_calls' = tr_calls) => tr_gets' = tr_gets

\* C3 (as stated): a retryable status or a network failure leads to a
\* backoff and another attempt while attempts remain; every other non-2xx
\* status (404 in stream-to-file aside) raises an HTTP error carrying the
\* status on that same attempt, with no backoff sleep and no further attempt.
C3_Non2xxRaises ==
    [][ /\ (tr_pc = "get" /\ tr_pc' # "crashed" /\ tr_pc' # "get") =>
            /\ C3_RetryStep
            /\ (/\ ~C3_Retried(tr_status')
                /\ ~(200 <= tr_status' /\ tr_status' < 300)
                /\ ~(tr_op = "file" /\ tr_status' = 404)) => C3_RaiseStep
        /\ C3_LoopStep ]_vars

\* C3 (amended): a retryable status or a network failure leads to a backoff
\* and another attempt while attempts remain; every other 4xx or 5xx status
\* (404 in stream-to-file aside) raises an HTTP error carrying the status on
\* that same attempt, with no backoff sleep and no further attempt; a 1xx or
\* 3xx final status raises no HTTP error and is handled like a 2xx.
C3_ErrorStatusRaises ==
    [][ /\ (tr_pc = "get" /\ tr_pc' # "crashed" /\ tr_pc' # "get") =>
            /\ C3_RetryStep
            /\ (/\ ~C3_Retried(tr_status')
                /\ 400 <= tr_status' /\ tr_status' < 600
                /\ ~(tr_op = "file" /\ tr_status' = 404)) => C3_RaiseStep
            /\ (/\ ~C3_Retried(tr_status')
                /\ tr_status' < 400) => tr_err'.cls # "HTTPError"
        /\ C3_LoopStep ]_vars

\* An HTTP error raised on the attempt after a retried one.
C3_Witness ==
    /\ tr_pc = "raised"
    /\ tr_err.cls = "HTTPError"
    /\ tr_err.status = tr_status
    /\ tr_gets >= 2
    /\ tr_sleeps = tr_gets - 1

(***************************************************************************)
(* C4                                                                      *)
(***************************************************************************)
C4_SkipsExisting ==
    (tr_op = "file" /\ tr_pre.exists /\ Len(tr_pre.data) > 0) =>
       /\ tr_pc = "returned"
       /\ tr_gets = 0
       /\ tr_waits = 0
       /\ fs[<<"doc", "htm">>] = tr_pre

\* C4 (as stated): stream-to-file on an existing non-empty destination makes
\* no request, takes no permit and leaves the file unchanged, and so a
\* second call after a successful first call performs no network I/O.
C4_SecondCallAfterAnySuccess ==
    /\ C4_SkipsExisting
    /\ (tr_op = "file" /\ tr_prev \in {"skipped", "skip404", "written"}) =>
          (tr_gets = 0 /\ tr_waits = 0)

\* C4 (amended): stream-to-file on an existing non-empty destination makes
\* no request, takes no permit and leaves the file unchanged, and so a
\* second call after a first call that left a non-empty destination file
\* performs no network I/O (a first call that ended in the 404 skip or wrote
\* an empty body is followed by a call that fetches again).
C4_SecondCallAfterNonEmptyWrite ==
    /\ C4_SkipsExisting
    /\ (tr_op = "file" /\ tr_prev \in {"skipped", "written"}
          /\ tr_pre # File(<<>>)) =>
          (tr_gets = 0 /\ tr_waits = 0 /\ tr_pc = "returned")

\* A second call finds the body the first call wrote.
C4_Witness ==
    /\ tr_calls = 2
    /\ tr_op = "file"
    /\ tr_prev = "written"
    /\ tr_pc = "returned"
    /\ tr_gets = 0
    /\ Len(fs[<<"doc", "htm">>].data) > 0
    /\ fs[<<"doc", "htm">>].data # OldData

(***************************************************************************)
(* C5                                                                      *)
(***************************************************************************)
\* C5: in every state of stream-to-file, a crash or an error during the
\* transfer included, the file under the final name is the one that was
\* there before the call or a completely written response body; the final
\* name changes only by the rename after the last chunk.
C5_NoPartialFinal ==
    /\ [](tr_op = "file" =>
            \/ fs[<<"doc", "htm">>] = tr_pre
            \/ /\ fs[<<"doc", "htm">>] = File(tr_body)
               /\ tr_written = Len(tr_body)
               /\ tr_pc = "returned")
    /\ [][fs'[<<"doc", "htm">>] # fs[<<"doc", "htm">>] =>
            /\ tr_pc = "stream"
            /\ tr_written = Len(tr_body)
            /\ fs[<<"doc", "htm", "part">>] = File(tr_body)
            /\ fs'[<<"doc", "htm">>] = File(tr_body)]_vars

\* The process died with part of the body in the '.part' file.
C5_Witness ==
    /\ tr_pc = "crashed"
    /\ tr_written >= 1
    /\ tr_written < Len(tr_body)
    /\ fs[<<"doc", "htm", "part">>].data = <<1>>
    /\ fs[<<"doc", "htm">>] = tr_pre

(***************************************************************************)
(* C6                                                                      *)
(***************************************************************************)
\* C6, inside sec_download_file (a property of SpecTr): the attempt that is
\* answered 404 is the last step of the call; the call returns with no error
\* and the file system as it was, the '.part' name included.
C6_TransportSkip ==
    [][(tr_op = "file" /\ tr_pc = "get" /\ tr_gets' = tr_gets + 1
          /\ tr_status' = 404) =>
         /\ tr_pc' = "returned"
         /\ tr_err' = NoErr
         /\ fs' = fs
         /\ tr_sleeps' = tr_sleeps]_vars

\* A step of download_filing's document loop for future i
C6_DocStep(i) ==
    /\ i \in 1..Len(futs) /\ i \in 1..Len(futs')
    /\ futs[i].pc = "docs"
    /\ futs'[i].pc \in {"docs", "fail"}
    /\ futs'[i] # futs[i]

\* C6: when a document fetch of a filing download ends on HTTP 404, the
\* call returns without raising, no destination file and no temporary file
\* is created, the download moves on to its next selected document, and no
\* filing ever fails with 404 as the status of its document fetch; a filing
\* whose documents are all fetched or skipped is counted as ok.
C6_NotFoundSkipsDocument ==
    /\ [](\A i \in 1..Len(futs) :
            /\ futs[i].pc = "fail" => futs[i].status # 404
            /\ (futs[i].pc = "ok" /\ futs[i].drained) =>
                  /\ futs[i].err = NoErr
                  /\ futs[i].count = Len(futs[i].names)
                  /\ ok >= 1)
    /\ [][\A i \in 1..Len(futs) :
            (C6_DocStep(i) /\ futs'[i].status = 404) =>
               /\ futs'[i].pc = "docs"
               /\ futs'[i].err = NoErr
               /\ futs'[i].idx = futs[i].idx + 1
               /\ futs'[i].count = futs[i].count + 1
               /\ run_files' = run_files
               /\ run_parts' = run_parts
               /\ run_pc' = run_pc
               /\ run_err' = run_err]_vars

\* A filing with two documents was counted ok: its first document answered
\* 404 and left nothing behind, its second one was downloaded.
C6_Witness ==
    \E i \in 1..Len(futs) :
       /\ futs[i].pc = "ok"
       /\ futs[i].drained
       /\ futs[i].names = <<"a.htm", "b.htm">>
       /\ futs[i].count = 2
       /\ DocPath(futs[i].filing, "a.htm") \notin run_files
       /\ DocPath(futs[i].filing, "a.htm") \notin run_parts
       /\ DocPath(futs[i].filing, "b.htm") \in run_files
       /\ ok >= 1
       /\ failed = 0

(***************************************************************************)
(* C7                                                                      *)
(***************************************************************************)
\* The main thread takes the result of future i
C7_DrainStep(i) ==
    /\ i \in 1..Len(futs) /\ i \in 1..Len(futs')
    /\ ~futs[i].drained
    /\ futs'[i].drained

\* C7: a failure raised inside one filing's download is caught by the
\* orchestrator and counted as exactly one failure; every filing of the
\* batch runs to its own outcome and is counted exactly once, as ok or as
\* failed; when the batch is drained every target has been submitted and
\* counted, and the returned ok + failed equals the number of targets.
C7_EachFilingCountedOnce ==
    /\ [][\A i \in 1..Len(futs) :
            C7_DrainStep(i) =>
               /\ futs[i].pc \in {"ok", "fail"}
               /\ run_pc' = "drain"
               /\ run_err' = NoErr
               /\ futs[i].pc = "ok" => ok' = ok + 1 /\ failed' = failed
               /\ futs[i].pc = "fail" => failed' = failed + 1 /\ ok' = ok
               /\ \A j \in 1..Len(futs) :
                     j # i => futs'[j] = futs[j]]_vars
    /\ [][(futs # <<>> /\ futs' = <<>>) =>
            /\ Len(futs) = Len(targets)
            /\ \A i \in 1..Len(futs) :
                  /\ futs[i].drained
                  /\ futs[i].pc \in {"ok", "fail"}
                  /\ futs[i].filing = targets[i]]_vars
    /\ []((run_pc = "returned" /\ ~cfg.manifest_only) =>
            /\ summary.ok + summary.failed = summary.total
            /\ summary.ok = ok /\ summary.failed = failed)

\* One filing of a batch failed with the missing filing-index error and
\* another of the same batch succeeded; both have been counted.
C7_Witness ==
    /\ run_pc = "drain"
    /\ ok = 1
    /\ failed = 1
    /\ \E i, j \in 1..Len(futs) :
          /\ futs[i].pc = "fail" /\ futs[i].drained
          /\ futs[i].err = Err("RuntimeError", "choose_index_html", NoStatus)
          /\ futs[j].pc = "ok" /\ futs[j].drained

(***************************************************************************)
(* C8                                                                      *)
(***************************************************************************)
\* C8 (as stated): a fetch-exhaustion error raised by any transport call
\* of a run, in target discovery or in a filing download, is never fatal to
\* the run: run_download never ends by raising it.
C8_ExhaustionNeverFatal ==
    ~(run_pc = "raised" /\ run_err.at = "after_retries")

(***************************************************************************)
(* C9                                                                      *)
(***************************************************************************)
\* C9 (as stated): in bulk-index mode an invalid shard spec makes
\* run_download raise a configuration error before any HTTP request is
\* issued and before any manifest is read or written.
C9_ShardErrorBeforeIO ==
    (run_pc = "raised" /\ run_err.at \in {"shard_format", "shard_values"}) =>
       /\ run_err.cls = "ValueError"
       /\ ~http_issued
       /\ ~manifest_read
       /\ ~manifest_written

(***************************************************************************)
(* C10                                                                     *)
(***************************************************************************)
C10_NoDigit(c) ==
    \A i \in 1..Len(c) :
       c[i] \notin {"0", "1", "2", "3", "4", "5", "6", "7", "8", "9"}

C10_InvalidArguments ==
    \/ cfg.ciks = <<>>
    \/ \E i \in 1..Len(cfg.ciks) : C10_NoDigit(cfg.ciks[i])
    \/ cfg.download_mode \notin {"8k_ex", "primary_ex_htm", "all"}
    \/ cfg.source_mode \notin {"cik", "master_index"}
    \/ cfg.user_agent = <<>>
    \/ \A i \in 1..Len(cfg.user_agent) : cfg.user_agent[i] # "@"

\* C10: when the company-id list is empty or holds an id with no digits,
\* when download_mode or source_mode is not a known value, or when the
\* contact string is empty or has no '@', run_download raises ValueError
\* as its first step, before any HTTP request and before any file or
\* directory is created.
C10_InvalidArgumentsRaiseFirst ==
    (C10_InvalidArguments /\ run_pc # "start") =>
       /\ run_pc = "raised"
       /\ run_err.cls = "ValueError"
       /\ run_err.at \in {"normalize_cik", "no_ciks", "download_mode",
                          "source_mode", "build_session"}
       /\ ~http_issued
       /\ run_files = {} /\ run_parts = {} /\ run_dirs = {}
       /\ ~manifest_read /\ ~manifest_written
       /\ futs = <<>>
       /\ ~summary.returned

\* The ids and both modes were valid and the contact string had no '@':
\* build_session raised.
C10_Witness ==
    /\ run_pc = "raised"
    /\ run_err = Err("ValueError", "build_session", NoStatus)
    /\ cfg.user_agent = <<"n">>
    /\ cfg.ciks # <<>>
    /\ cfg.download_mode = "all"
    /\ cfg.source_mode = "master_index"

(***************************************************************************)
(* C11                                                                     *)
(***************************************************************************)
\* The other arguments pass the checks made before the start date is looked at
C11_OtherArgumentsValid ==
    /\ cfg.ciks # <<>>
    /\ \A i \in 1..Len(cfg.ciks) : CikHasDigits(cfg.ciks[i])
    /\ cfg.download_mode \in DownloadModes
    /\ cfg.source_mode \in SourceModes
    /\ UserAgentOk(cfg.user_agent)

\* C11 (as stated): an invalid start date makes run_download raise a
\* configuration error before any HTTP request is issued, in per-company
\* mode and in bulk-index mode, whether the targets are freshly discovered
\* or loaded from a reused manifest: once run_download is past its first
\* step it has raised ValueError from the date parser and no request has
\* been issued.
C11_InvalidDateRaisesBeforeHttp ==
    (/\ cfg.start_date.given /\ ~cfg.start_date.valid
     /\ C11_OtherArgumentsValid
     /\ run_pc \notin {"start", "c_scan", "m_load"}) =>
       /\ run_pc = "raised"
       /\ run_err = Err("ValueError", "parse_date", NoStatus)
       /\ ~http_issued

(***************************************************************************)
(* C12                                                                     *)
(***************************************************************************)
C12_Accessions(q) == { q[i].accession_no : i \in 1..Len(q) }

C12_FirstOf(q, a) ==
    q[CHOOSE i \in 1..Len(q) :
        /\ q[i].accession_no = a
        /\ \A j \in 1..(i - 1) : q[j].accession_no # a]

\* C12: whichever discovery strategy ran (submissions record with its pages,
\* paginated listing, quarterly indexes), the list it returns holds every
\* accession number of the references it gathered exactly once, and the
\* record returned for an accession number is the first one gathered with
\* that number, in the order primary record, pages, quarters were read.
C12_DedupFirstWins ==
    ds_pc = "done" =>
        /\ \A i, j \in 1..Len(ds_out) :
              ds_out[i].accession_no = ds_out[j].accession_no => i = j
        /\ C12_Accessions(ds_out) = C12_Accessions(ds_refs)
        /\ \A i \in 1..Len(ds_out) :
              ds_out[i] = C12_FirstOf(ds_refs, ds_out[i].accession_no)

C12_Repeated ==
    \E i, j \in 1..Len(ds_refs) :
        /\ i < j
        /\ ds_refs[i].accession_no = ds_refs[j].accession_no
        /\ ds_refs[i] # ds_refs[j]

\* Two quarters list the same accession number with different records
C12_Witness ==
    /\ ds_op = "master"
    /\ ds_pc = "done"
    /\ Len(ds_batches[1].rows) > 0 /\ Len(ds_batches[2].rows) > 0
    /\ C12_Repeated

C12_WitnessSubmissions ==
    ds_op = "submissions" /\ ds_pc = "done" /\ C12_Repeated

C12_WitnessListing ==
    ds_op = "listing" /\ ds_pc = "done" /\ C12_Repeated

(***************************************************************************)
(* C13                                                                     *)
(***************************************************************************)
C13_Before(a, b) ==
    \/ a.filing_date < b.filing_date
    \/ a.filing_date = b.filing_date /\ a.accession_no <= b.accession_no

C13_Sorted(q) == \A i \in 1..(Len(q) - 1) : C13_Before(q[i], q[i + 1])

\* C13: the target list of run_download, whether a discovery strategy
\* returned it or a manifest was read, is non-decreasing in (filing_date,
\* accession_no), and the worker pool is given the targets in that order:
\* the i-th task submitted is for the i-th target.
C13_SortedAndSubmittedInOrder ==
    /\ C13_Sorted(targets)
    /\ run_pc \in {"submit", "drain"} =>
          /\ Len(futs) <= Len(targets)
          /\ \A i \in 1..Len(futs) : futs[i].filing = targets[i]

\* A manifest whose two lines are out of order has just been read
C13_Witness ==
    /\ manifest_read
    /\ run_pc = "m_shard"
    /\ Len(manifest.lines) = 2
    /\ manifest.lines[1].filing_date > manifest.lines[2].filing_date
    /\ Len(targets) = 2

\* Two targets read from a manifest have both been submitted
C13_WitnessSubmitted ==
    /\ manifest_read
    /\ run_pc = "drain"
    /\ Len(futs) = 2
    /\ futs[1].filing # futs[2].filing

\* what each discovery strategy returns is sorted
C13_DiscoverySorted == ds_pc = "done" => C13_Sorted(ds_out)

\* what read_targets_manifest returns is sorted
C13_ManifestSorted == fn_pc = "done" => C13_Sorted(fn_out)

(***************************************************************************)
(* C14                                                                     *)
(***************************************************************************)
RECURSIVE C14_IsSubseq(_, _)
C14_IsSubseq(s, t) ==
    IF s = <<>> THEN TRUE
    ELSE IF t = <<>> THEN FALSE
    ELSE IF s[1] = t[1] THEN C14_IsSubseq(Tail(s), Tail(t))
    ELSE C14_IsSubseq(s, Tail(t))

RECURSIVE C14_SumLen(_, _)
C14_SumLen(shards, n) ==
    IF n = 0 THEN 0 ELSE Len(shards[n]) + C14_SumLen(shards, n - 1)

\* C14: for K >= 1 and a target list T, the selections of shards 1..K are
\* pairwise disjoint, together they hold exactly the targets of T (each as
\* often as T does), a target is in shard N exactly when the hash of its
\* accession number is N - 1 modulo K, whatever its other fields and its
\* place in T, and each selection lists its targets in the order of T.
C14_ShardsPartition ==
    (fn_op = "shard" /\ fn_pc = "done") =>
        /\ \A n, m \in 1..fn_k :
              n # m => RangeOf(fn_shards[n]) \cap RangeOf(fn_shards[m]) = {}
        /\ UNION { RangeOf(fn_shards[n]) : n \in 1..fn_k } = RangeOf(fn_refs)
        /\ C14_SumLen(fn_shards, fn_k) = Len(fn_refs)
        /\ \A n \in 1..fn_k : \A i \in 1..Len(fn_refs) :
              (\E j \in 1..Len(fn_shards[n]) : fn_shards[n][j] = fn_refs[i])
                <=> (Sha1Int(fn_refs[i].accession_no) % fn_k) = n - 1
        /\ \A n \in 1..fn_k : C14_IsSubseq(fn_shards[n], fn_refs)

\* Three targets with different accession numbers are split over K >= 2
\* shards, two of them in the same shard and one in another
C14_Witness ==
    /\ fn_op = "shard" /\ fn_pc = "done"
    /\ fn_k >= 2
    /\ Len(fn_refs) = 3
    /\ \A i, j \in 1..3 :
          fn_refs[i].accession_no = fn_refs[j].accession_no => i = j
    /\ \E n, m \in 1..fn_k :
          n # m /\ Len(fn_shards[n]) = 2 /\ Len(fn_shards[m]) = 1

(***************************************************************************)
(* C15                                                                     *)
(***************************************************************************)
C15_Tuple(r) == <<r.cik10, r.accession_no, r.filing_date, r.form>>

C15_Tuples(q) == { C15_Tuple(q[i]) : i \in 1..Len(q) }

\* C15: writing a list of references that discovery produced and reading
\* the file back does not raise, yields references with the same set of
\* (cik10, accession_no, filing_date, form) as the written ones, and every
\* reference read has an empty primary document, whatever was written from.
C15_RoundTrip ==
    (fn_op = "roundtrip" /\ fn_pc # "ready") =>
        /\ fn_pc = "done"
        /\ C15_Tuples(fn_out) = C15_Tuples(fn_refs)
        /\ \A i \in 1..Len(fn_out) : fn_out[i].primary_document = ""

\* Three different references went through the file: one with a primary
\* document, one an amendment, one with the date 'unknown-date'
C15_Witness ==
    /\ fn_op = "roundtrip" /\ fn_pc = "done"
    /\ Cardinality(C15_Tuples(fn_refs)) = 3
    /\ \E i \in 1..3 : fn_refs[i].primary_document # ""
    /\ \E i \in 1..3 : fn_refs[i].form = "8-K/A"
    /\ \E i \in 1..3 : fn_refs[i].filing_date = UnknownDate

(***************************************************************************)
(* C16                                                                     *)
(***************************************************************************)
\* C16: read_targets_manifest never raises because of a line of the file:
\* whatever the lines are, it returns.
C16_ReadNeverRaises == fn_op = "read" => fn_pc # "raised"

\* C16, in run_download: a reused manifest never makes the run raise while
\* it is read.
C16_RunSurvivesManifest ==
    (manifest_read /\ run_pc = "raised") => run_err.at # "normalize_cik"

(***************************************************************************)
(* C17                                                                     *)
(***************************************************************************)
C17_DigitSet == {"0", "1", "2", "3", "4", "5", "6", "7", "8", "9"}

C17_Digits(x) == SelectSeq(x, LAMBDA c : c \in C17_DigitSet)

\* the last (up to) ten elements of d, zero-padded on the left to ten
C17_Padded(d) ==
    LET m == IF Len(d) > 10 THEN 10 ELSE Len(d)
    IN [i \in 1..10 |-> IF i <= 10 - m THEN "0" ELSE d[Len(d) - 10 + i]]

\* C17: normalize_cik of an input with at least one digit returns ten
\* characters, all digits: the last (up to) ten digits of the input, its
\* other characters removed, zero-padded on the left; normalising the result
\* again gives the same result. On an input without a digit it raises
\* ValueError.
C17_Normalize ==
    (fn_op = "normalize" /\ fn_pc # "ready") =>
        IF C17_Digits(fn_cik) # <<>>
        THEN /\ fn_pc = "done"
             /\ Len(fn_str[1]) = 10
             /\ \A i \in 1..10 : fn_str[1][i] \in C17_DigitSet
             /\ fn_str[1] = C17_Padded(C17_Digits(fn_cik))
             /\ fn_str[2] = fn_str[1]
        ELSE /\ fn_pc = "raised"
             /\ fn_err = Err(ValidationError, "normalize_cik", NoStatus)

\* An input of more than ten digits, with other characters among them, was
\* normalised
C17_Witness ==
    /\ fn_op = "normalize" /\ fn_pc = "done"
    /\ Len(C17_Digits(fn_cik)) > 10
    /\ Len(fn_cik) > Len(C17_Digits(fn_cik))

\* An input without a digit was rejected
C17_WitnessRaised ==
    fn_op = "normalize" /\ fn_pc = "raised" /\ fn_cik # <<>>

(***************************************************************************)
(* C18                                                                     *)
(***************************************************************************)
\* the rows of the page the i-th request of the walker was answered with
C18_PageAt(i) ==
    PageOf(ds_batches[ds_requests[i][1]].rows, ds_requests[i][2],
           ds_page_size)

\* after its i-th request the walker goes on to the next page of the same
\* form type: it has requested it, or is about to
C18_Continues(i) ==
    IF i < Len(ds_requests)
    THEN ds_requests[i + 1] =
            <<ds_requests[i][1], ds_requests[i][2] + ds_page_size>>
    ELSE /\ ds_pc = "paging"
         /\ ds_form = ds_requests[i][1]
         /\ ds_start = ds_requests[i][2] + ds_page_size

\* after its i-th request the walker requests no further page of that form
C18_Stops(i) ==
    /\ \A j \in (i + 1)..Len(ds_requests) :
          ds_requests[j][1] # ds_requests[i][1]
    /\ ~(ds_pc = "paging" /\ ds_form = ds_requests[i][1])

C18_NewestFirst(rows) ==
    \A i \in 1..(Len(rows) - 1) : rows[i].date >= rows[i + 1].date

\* a page of 100 rows, newest first, the 37th before the floor, served to
\* a walker with a floor and a page size of 100
C18_Scenario(i) ==
    /\ ds_op = "listing"
    /\ ds_floor.given /\ ds_floor.valid
    /\ ds_page_size = 100
    /\ Len(C18_PageAt(i)) = 100
    /\ C18_NewestFirst(C18_PageAt(i))
    /\ C18_PageAt(i)[37].date < ds_floor.day

\* C18 as stated: after a page of 100 newest-first rows whose 37th row is
\* before the floor, the walker requests no further page of the form type.
C18_StopsAfterPageWithOlderRow ==
    \A i \in 1..Len(ds_requests) : C18_Scenario(i) => C18_Stops(i)

\* C18: after a page of 100 newest-first rows whose 37th row is before the
\* floor, the walker requests no further page of the form type if the first
\* row of the page, and so every row, is before the floor; if the first row
\* is on or after the floor it requests the page at the next offset.
C18_StopsOnlyAfterWhollyOlderPage ==
    \A i \in 1..Len(ds_requests) :
        C18_Scenario(i) =>
            IF C18_PageAt(i)[1].date < ds_floor.day
            THEN C18_Stops(i)
            ELSE C18_Continues(i)

\* The walker has finished; its first page had 100 rows, 36 of them on or
\* after the floor, and it went on to request offset 100
C18_Witness ==
    /\ ds_op = "listing" /\ ds_pc = "done"
    /\ Len(ds_requests) = 2
    /\ C18_Scenario(1)
    /\ C18_PageAt(1)[36].date >= ds_floor.day
    /\ ds_requests[2] = <<1, 100>>

\* The walker has finished after one page of 100 rows, all before the floor
C18_WitnessStopped ==
    /\ ds_op = "listing" /\ ds_pc = "done"
    /\ Len(ds_requests) = 1
    /\ C18_Scenario(1)

(***************************************************************************)
(* C19                                                                     *)
(***************************************************************************)
C19_EveryRowOlder(rows) ==
    \A k \in 1..Len(rows) :
        ParsesAsDate(rows[k].date) /\ rows[k].date < ds_floor.day

\* the requests of a form type are at offsets 0, page_size, 2 * page_size...
C19_Offsets ==
    \A i \in 1..Len(ds_requests) :
        IF i = 1 \/ ds_requests[i - 1][1] # ds_requests[i][1]
        THEN ds_requests[i][2] = 0
        ELSE ds_requests[i][2] = ds_requests[i - 1][2] + ds_page_size

\* the next page is requested only after a page of page_size rows that, if
\* there is a floor, are not all older than it
C19_NextOnlyAfterFullPage ==
    \A i \in 1..Len(ds_requests) :
        C18_Continues(i) =>
            /\ Len(C18_PageAt(i)) = ds_page_size
            /\ ds_floor.given => ~C19_EveryRowOlder(C18_PageAt(i))

C19_Terminated == ds_pc \in {"done", "raised"}

\* C19: the paginated-listing walker requests the pages of a form type at
\* offsets 0, page_size, 2 * page_size, ...; it goes on to the next page only
\* if the page it got had exactly page_size rows and, with a floor, not
\* every row of it was older than the floor; and on a listing of finitely
\* many rows it comes to an end.
C19_Pagination ==
    /\ [](ds_op = "listing" => C19_Offsets /\ C19_NextOnlyAfterFullPage)
    /\ (ds_op = "listing") ~> C19_Terminated

\* With a floor, the walker requested three pages of one form type and more,
\* and has returned
C19_Witness ==
    /\ ds_op = "listing" /\ ds_pc = "done"
    /\ ds_floor.given
    /\ Len(ds_requests) >= 4
    /\ ds_requests[1] = <<1, 0>>
    /\ ds_requests[2] = <<1, ds_page_size>>
    /\ ds_requests[3] = <<1, 2 * ds_page_size>>

(***************************************************************************)
(* C20                                                                     *)
(***************************************************************************)
\* the scan of a company with a floor ends without an exception
C20_Scanned ==
    /\ run_pc = "c_scan"
    /\ cfg.start_date.given
    /\ run_pc' # "raised"

\* C20: in per-company mode with a floor the submissions record is read
\* first and only its filings dated on or after the floor are kept; if the
\* earliest of the dates kept is on or before the floor, the kept filings
\* become the company's targets and the batch follows without a listing
\* request; otherwise the run goes on to the paginated listing, whose result
\* becomes the company's targets.
C20_ResolutionPolicy ==
    /\ [][C20_Scanned =>
            /\ \A i \in 1..Len(sub_targets') :
                  sub_targets'[i].filing_date >= cfg.start_date.day
            /\ IF \E i \in 1..Len(sub_targets') :
                     sub_targets'[i].filing_date <= cfg.start_date.day
               THEN run_pc' = "c_batch" /\ targets' = sub_targets'
               ELSE run_pc' = "c_browse" /\ targets' = targets]_vars
    /\ [][run_pc = "c_browse" =>
            /\ run_pc' \in {"c_batch", "raised"}
            /\ run_pc' = "c_batch" =>
                  \A i \in 1..Len(targets') :
                     /\ targets'[i].cik10 = ciks10[cidx]
                     /\ targets'[i].primary_document = ""
                     /\ targets'[i].filing_date >= cfg.start_date.day]_vars

\* The submissions record had a filing after the floor and none on it: the
\* run is about to walk the listing
C20_Witness ==
    /\ run_pc = "c_browse"
    /\ sub_targets # <<>>

\* The submissions record had a filing on the floor date and was used
C20_WitnessTrusted ==
    /\ run_pc = "c_batch"
    /\ cfg.start_date.given
    /\ targets # <<>>
    /\ targets = sub_targets
    /\ targets[1].primary_document # ""

(***************************************************************************)
(* C21                                                                     *)
(***************************************************************************)
\* the submissions record of the company being scanned holds a wanted filing
\* dated on or before the floor
C21_Covers ==
    \E i \in 1..Len(sub_found) :
        sub_found[i].filing_date <= cfg.start_date.day

\* C21: when the submissions record of a company holds a wanted filing dated
\* on or before the floor, the run never goes on to the paginated listing
\* for that company.
C21_CoveredMeansNoListing == run_pc = "c_browse" => ~C21_Covers

(***************************************************************************)
(* C22                                                                     *)
(***************************************************************************)
\* no two tasks of a batch are for the same accession number
C22_OncePerBatch ==
    \A i, j \in 1..Len(futs) :
        futs[i].filing.accession_no = futs[j].filing.accession_no => i = j

\* no target of a batch about to be submitted had a download started for it
\* earlier in the run (which created its directory)
C22_OncePerRun ==
    (run_pc = "submit" /\ futs = <<>>) =>
        \A i \in 1..Len(targets) : BaseDir(targets[i]) \notin run_dirs

\* C22: in one run every accession number is submitted to the worker pool
\* at most once, whatever the list of company ids and whichever way the
\* targets were obtained.
C22_OneAttemptPerAccession == C22_OncePerBatch /\ C22_OncePerRun

(***************************************************************************)
(* C23                                                                     *)
(***************************************************************************)
\* while tasks exist the run is submitting or draining them (or has raised
\* out of the drain), the tasks are for the leading targets, and the list is
\* sorted and, when it was discovered in this run, free of repeats
C23_ListFinal ==
    futs # <<>> =>
        /\ run_pc \in {"submit", "drain", "raised"}
        /\ Len(futs) <= Len(targets)
        /\ \A i \in 1..Len(futs) : futs[i].filing = targets[i]
        /\ C13_Sorted(targets)
        /\ ~manifest_read =>
              \A i, j \in 1..Len(targets) :
                  targets[i].accession_no = targets[j].accession_no => i = j

\* while a company is being scanned no task exists and every target of the
\* companies before it has been counted as ok or failed
C23_Counted ==
    run_pc \in {"c_scan", "c_browse", "c_batch"} =>
        /\ futs = <<>>
        /\ ok + failed = total_targets

\* the list does not change while tasks exist, and the loop moves on to
\* the next company only from a batch whose tasks are all finished and drained
C23_Step ==
    /\ futs # <<>> => targets' = targets
    /\ (cidx' # cidx /\ futs # <<>>) =>
          \A i \in 1..Len(futs) :
              futs[i].drained /\ futs[i].pc \in {"ok", "fail"}

\* C23: no download of a batch starts before the batch's target list is
\* final (discovered, de-duplicated, sorted), and in per-company mode the
\* next company is not scanned before every download of the current one has
\* completed and been counted.
C23_PhasesDoNotOverlap ==
    [](C23_ListFinal /\ C23_Counted) /\ [][C23_Step]_vars

\* the second company is about to be scanned after a batch of the first
C23_Witness ==
    /\ cidx = 2
    /\ run_pc = "c_scan"
    /\ total_targets > 0
    /\ failed > 0

(***************************************************************************)
(* C24                                                                     *)
(***************************************************************************)
\* max(1, max_workers)
C24_Limit ==
    CHOOSE m \in {1, cfg.max_workers} : m >= 1 /\ m >= cfg.max_workers

C24_Executing == { i \in 1..Len(futs) : futs[i].pc \in {"index", "html", "docs"} }

C24_Drained == { i \in 1..Len(futs) : futs[i].drained }

\* the tasks in flight are within the limit, and the outcomes counted so
\* far are those of the earlier batches and of the tasks drained in this one
C24_Bounded ==
    /\ Cardinality(C24_Executing) <= C24_Limit
    /\ run_pc \in {"submit", "drain"} =>
          ok + failed = (total_targets - Len(targets)) + Cardinality(C24_Drained)

\* an outcome is counted only once its task has finished, one at a time,
\* whatever its position; the batch ends only when every outcome is counted
C24_Step ==
    /\ \A i \in 1..Len(futs) :
          (futs' # <<>> /\ futs'[i].drained /\ ~futs[i].drained) =>
              /\ futs[i].pc \in {"ok", "fail"}
              /\ ok' + failed' = ok + failed + 1
              /\ ok' = ok + (IF futs[i].pc = "ok" THEN 1 ELSE 0)
    /\ (futs # <<>> /\ futs' = <<>>) =>
          /\ Len(futs) = Len(targets)
          /\ C24_Drained = 1..Len(futs)

\* C24: at most max(1, max_workers) downloads of a batch execute at the same
\* time, outcomes are counted as tasks complete (in any order), and the
\* batch ends only after the outcome of every submitted task was counted.
C24_PoolBoundedAndDrained == []C24_Bounded /\ [][C24_Step]_vars

\* the second task's outcome is counted while the first is still executing
C24_Witness ==
    /\ run_pc = "drain"
    /\ Len(futs) = 2
    /\ futs[2].drained
    /\ futs[1].pc \in {"index", "html", "docs"}

\* with one worker the second task waits in the queue while the first runs
C24_WitnessQueued ==
    /\ C24_Limit = 1
    /\ cfg.max_workers = 0
    /\ Len(futs) = 2
    /\ futs[1].pc \in {"index", "html", "docs"}
    /\ futs[2].pc = "queued"

(***************************************************************************)
(* main: the exit status of the process, read once run_download is over    *)
(***************************************************************************)
\* a main whose status does not look at the summary
main_ignoring_failed == IF cfg.ciks = <<>> \/ run_pc # "returned" THEN 1 ELSE 0

\* if not ciks: raise SystemExit("No CIKs provided ..."); an exception out of
\* normalize_cik or run_download ends the process with status 1;
\* return 0 if summary.get("failed", 0) == 0 else 2
main ==
    IF cfg.ciks = <<>> \/ run_pc # "returned" THEN 1
    ELSE IF summary.failed = 0 THEN 0 ELSE 2

(***************************************************************************)
(* C25                                                                     *)
(***************************************************************************)
C25_Exited == run_pc \in {"returned", "raised"}

\* C25 as stated: the exit status is non-zero if and only if at least one
\* filing download failed during the run.
C25_NonZeroIffFailed == C25_Exited => (main # 0 <=> failed > 0)

\* C25, amended: a run that returns exits with 2 when at least one filing
\* download failed and with 0 otherwise; a run that ends in an exception
\* exits with a non-zero status whether or not a download failed.
C25_ExitStatus ==
    /\ run_pc = "returned" =>
          /\ summary.failed = failed
          /\ main = (IF cfg.ciks = <<>> THEN 1 ELSE IF failed > 0 THEN 2 ELSE 0)
    /\ run_pc = "raised" => main # 0
    /\ (C25_Exited /\ failed > 0) => main # 0

\* a run has returned with one download failed and one succeeded
C25_Witness ==
    /\ run_pc = "returned"
    /\ failed > 0
    /\ ok > 0
    /\ main = 2

\* a run has ended in an exception before any download failed
C25_WitnessRaised ==
    /\ run_pc = "raised"
    /\ failed = 0
    /\ cfg.ciks # <<>>
    /\ main # 0

(***************************************************************************)
(* C26                                                                     *)
(***************************************************************************)
\* the rows of the primary record and of its paged sub-records
C26_Rows ==
    UNION { { ds_batches[b].rows[i] : i \in 1..Len(ds_batches[b].rows) } :
            b \in 1..Len(ds_batches) }

\* the form of a row, blanks around it apart, is a wanted one
C26_WantedRow(r) ==
    \/ r.form \in {"8-K", " 8-K "}
    \/ ds_incl /\ r.form = "8-K/A"

C26_WantedAccessions ==
    { r.acc : r \in { x \in C26_Rows : C26_WantedRow(x) } } \ {NoAccession}

\* C26: the submissions walker followed by the form filter returns exactly
\* one reference for every accession number found in a row, of the primary
\* record or of a paged sub-record, whose form is 8-K (or 8-K/A when
\* amendments are included), and no reference that comes from a row of
\* another form.
C26_OneRefPerWantedAccession ==
    (ds_op = "submissions" /\ ds_pc = "done") =>
        /\ { ds_out[i].accession_no : i \in 1..Len(ds_out) }
              = C26_WantedAccessions
        /\ \A i, j \in 1..Len(ds_out) :
              ds_out[i].accession_no = ds_out[j].accession_no => i = j
        /\ \A i \in 1..Len(ds_out) :
              /\ ds_out[i].form \in {"8-K", "8-K/A"}
              /\ ds_out[i].form = "8-K/A" => ds_incl
              /\ \E r \in C26_Rows :
                    /\ C26_WantedRow(r)
                    /\ r.acc = ds_out[i].accession_no
                    /\ r.primary = ds_out[i].primary_document

\* rows [8-K, 10-K], the 10-K in a paged sub-record, amendments excluded:
\* exactly the one 8-K reference is returned
C26_Witness ==
    /\ ds_op = "submissions"
    /\ ds_pc = "done"
    /\ ~ds_incl
    /\ Len(ds_batches) = 2
    /\ Len(ds_batches[1].rows) = 1
    /\ ds_batches[1].rows[1].form = "8-K"
    /\ Len(ds_batches[2].rows) = 1
    /\ ds_batches[2].rows[1].form = "10-K"
    /\ Len(ds_out) = 1
    /\ ds_out[1].accession_no = ds_batches[1].rows[1].acc

\* an 8-K row of a paged sub-record repeats an accession number of the
\* primary record, next to an amendment that is left out
C26_WitnessPaged ==
    /\ ds_op = "submissions"
    /\ ds_pc = "done"
    /\ ~ds_incl
    /\ Len(ds_batches) = 2
    /\ Len(ds_batches[1].rows) = 2
    /\ ds_batches[1].rows[1].form = "8-K"
    /\ ds_batches[1].rows[2].form = "8-K/A"
    /\ Len(ds_batches[2].rows) = 1
    /\ ds_batches[2].rows[1].form = "8-K"
    /\ ds_batches[2].rows[1].acc = ds_batches[1].rows[1].acc
    /\ ds_batches[2].rows[1] # ds_batches[1].rows[1]
    /\ Len(ds_out) = 1

(***************************************************************************)
(* C27                                                                     *)
(***************************************************************************)
\* the header rows before row i
C27_HeadersBefore(rows, i) ==
    { j \in 1..(i - 1) : rows[j].th /\ rows[j].cells # <<>> }

\* the position of a label in the last header row before row i, 0 if none
C27_Position(rows, i, label) ==
    LET h == rows[CHOOSE j \in C27_HeadersBefore(rows, i) :
                    \A k \in C27_HeadersBefore(rows, i) : k <= j].cells
        at == { k \in 1..Len(h) : h[k] = label }
    IN IF at = {} THEN 0 ELSE CHOOSE k \in at : \A m \in at : k <= m

\* what data row i contributes: from the header's positions when a header
\* row came before it, from the fixed guess (first and third cell) otherwise
C27_RowOf(rows, i) ==
    LET c == rows[i].cells
        pair ==
          IF C27_HeadersBefore(rows, i) = {}
          THEN (IF Len(c) >= 3 THEN << <<c[1], c[3]>> >> ELSE <<>>)
          ELSE LET d == C27_Position(rows, i, "Document")
                   t == C27_Position(rows, i, "Type")
               IN IF d \in 1..Len(c) /\ t \in 1..Len(c)
                  THEN << <<c[d], c[t]>> >> ELSE <<>>
    IN IF rows[i].th \/ c = <<>> THEN <<>>
       ELSE IF pair # <<>> /\ pair[1][1] \in {"", "Document"} THEN <<>>
       ELSE pair

RECURSIVE C27_Expected(_, _)
C27_Expected(rows, n) ==
    IF n = 0 THEN <<>>
    ELSE C27_Expected(rows, n - 1) \o C27_RowOf(rows, n)

\* C27: the index parser yields, for each data row, the cells at the
\* positions of Document and Type in the header row, and the first and
\* third cell only when no header row came before the data row.
C27_ColumnsFromHeader ==
    fn_op = "index" =>
        /\ fn_pc # "raised"
        /\ fn_pc = "done" => fn_out = C27_Expected(fn_lines, Len(fn_lines))

(***************************************************************************)
(* C28                                                                     *)
(***************************************************************************)
C28_File(n) == [stem |-> n.stem, ext |-> n.ext, note |-> ""]

C28_Is8K(t) == t \in { <<"8-", "K">>, <<"8-", "K/A">> }
C28_IsExhibit(t) == Len(t) >= 1 /\ t[1] \in {"EX-", "ex-"}

\* the rows of the page whose file has one of the extensions and whose type
\* is the form (k) or an exhibit (~k)
C28_RowsAt(exts, k) ==
    { i \in 1..Len(fn_lines) :
        /\ fn_lines[i].doc.ext \in exts
        /\ IF k THEN C28_Is8K(fn_lines[i].typ)
           ELSE C28_IsExhibit(fn_lines[i].typ) }

\* the declared primary document if it is named and has one of the
\* extensions, else the file of the first form row that has
C28_Head(exts) ==
    LET p == C28_File(fn_refs[1].primary_document)
        at == C28_RowsAt(exts, TRUE)
    IN IF p.stem # "" /\ p.ext \in exts THEN {p}
       ELSE IF at = {} THEN {}
       ELSE {C28_File(fn_lines[CHOOSE i \in at : \A j \in at : i <= j].doc)}

C28_FirstRowOf(n) ==
    CHOOSE i \in 1..Len(fn_lines) :
        /\ C28_File(fn_lines[i].doc) = n
        /\ \A j \in 1..(i - 1) : C28_File(fn_lines[j].doc) # n

C28_NoRepeats ==
    \A i, j \in 1..Len(fn_out) : fn_out[i] = fn_out[j] => i = j

\* primary+exhibits-htm, with 'HTML' meaning one of the extensions: the head
\* first, then the exhibits with such an extension in the order of the page
C28_PrimaryMode(exts) ==
    LET exhibits == { C28_File(fn_lines[i].doc) : i \in C28_RowsAt(exts, FALSE) }
    IN /\ C28_NoRepeats
       /\ { fn_out[i] : i \in 1..Len(fn_out) } = C28_Head(exts) \cup exhibits
       /\ C28_Head(exts) # {} => fn_out[1] \in C28_Head(exts)
       /\ \A i, j \in 1..Len(fn_out) :
             (i < j /\ fn_out[i] \notin C28_Head(exts)
                    /\ fn_out[j] \notin C28_Head(exts)) =>
                 C28_FirstRowOf(fn_out[i]) < C28_FirstRowOf(fn_out[j])

\* 8-K+exhibits: the file of every form row and exhibit row, in the order
\* of the page, whatever its extension
C28_AnyExtensionMode ==
    /\ C28_NoRepeats
    /\ { fn_out[i] : i \in 1..Len(fn_out) } =
          { C28_File(fn_lines[i].doc) :
              i \in { k \in 1..Len(fn_lines) :
                        C28_Is8K(fn_lines[k].typ)
                        \/ C28_IsExhibit(fn_lines[k].typ) } }
    /\ \A i, j \in 1..Len(fn_out) :
          i < j => C28_FirstRowOf(fn_out[i]) < C28_FirstRowOf(fn_out[j])

\* C28 as stated: in primary+exhibits-htm mode the selection is the declared
\* primary document if it is an HTML file (.htm or .html), else the first
\* 8-K or 8-K/A row with an HTML file, then every exhibit row with an HTML
\* file, without repeats; in 8-K+exhibits mode every 8-K, 8-K/A and exhibit
\* row whatever the extension.
C28_SelectsHtml ==
    /\ (fn_op = "primary_ex_htm" /\ fn_pc = "done") =>
          C28_PrimaryMode({"htm", "HTM", "html", "HTML"})
    /\ (fn_op = "8k_ex" /\ fn_pc = "done") => C28_AnyExtensionMode

\* C28, amended: the same selection with 'HTML' meaning that the file name
\* ends in '.htm' (in either case); a name ending in '.html' is not selected
\* in primary+exhibits-htm mode.
C28_SelectsHtm ==
    /\ (fn_op = "primary_ex_htm" /\ fn_pc = "done") =>
          C28_PrimaryMode({"htm", "HTM"})
    /\ (fn_op = "8k_ex" /\ fn_pc = "done") => C28_AnyExtensionMode

\* no usable primary document: the first form row with a .htm file is
\* taken, then two exhibits, one of them listed under two rows
C28_Witness ==
    /\ fn_op = "primary_ex_htm"
    /\ fn_pc = "done"
    /\ fn_refs[1].primary_document = NoName
    /\ Len(fn_lines) = 3
    /\ Len(fn_out) = 2
    /\ fn_out[1] = Name("k", "htm", "")
    /\ fn_out[2] = Name("a", "htm", "")
    /\ fn_lines[3].typ = <<"ex-", "10">>

\* a declared primary document ending in .html is passed over for the form
\* row of the page
C28_WitnessHtml ==
    /\ fn_op = "primary_ex_htm"
    /\ fn_pc = "done"
    /\ fn_refs[1].primary_document = Name("x", "html", "")
    /\ Len(fn_out) >= 1
    /\ fn_out[1] = Name("p", "htm", "")

\* 8-K+exhibits mode keeps a .pdf and a .html
C28_WitnessAnyExtension ==
    /\ fn_op = "8k_ex"
    /\ fn_pc = "done"
    /\ Len(fn_out) = 2
    /\ fn_out[1] = Name("k", "pdf", "")
    /\ fn_out[2] = Name("h", "html", "")

(***************************************************************************)
(* C29                                                                     *)
(***************************************************************************)
\* C29: download_filing changes manifest.json only by creating it, with the
\* filing's identity fields, when save_manifest is set, the mode is 'all'
\* and no such file exists; a manifest found in the directory is left as it
\* is, and in the two other modes none is created.
C29_ManifestWrittenOnce ==
    (fn_op = "manifest_json" /\ fn_pc = "done") =>
        /\ fn_out[1] # fn_args.existing =>
              /\ fn_args.save_manifest
              /\ fn_args.download_mode = "all"
              /\ ~fn_args.existing.exists
              /\ fn_out[1].exists
              /\ fn_out[1].data.accessionNumber = fn_refs[1].accession_no
              /\ fn_out[1].data.cik = fn_refs[1].cik10
        /\ fn_args.existing.exists => fn_out[1] = fn_args.existing
        /\ fn_args.download_mode # "all" => fn_out[1] = fn_args.existing
        /\ ~fn_args.save_manifest => fn_out[1] = fn_args.existing

\* the directory held the manifest of an earlier run, which differs from
\* the one this call would write, and still holds it
C29_Witness ==
    /\ fn_op = "manifest_json"
    /\ fn_pc = "done"
    /\ fn_args.save_manifest
    /\ fn_args.download_mode = "all"
    /\ fn_args.existing.exists
    /\ fn_args.existing # File(FilingManifest(fn_refs[1]))
    /\ fn_out[1] = fn_args.existing

\* no manifest was there and one was created
C29_WitnessCreated ==
    /\ fn_op = "manifest_json"
    /\ fn_pc = "done"
    /\ ~fn_args.existing.exists
    /\ fn_out[1] = File(FilingManifest(fn_refs[1]))

(***************************************************************************)
(* C30                                                                     *)
(***************************************************************************)
\* C30: a listing row whose date cannot be parsed never makes the walker
\* raise: with a valid floor, or none, the walker raises only when a page
\* cannot be fetched.
C30_BadDateNeverRaises ==
    (ds_op = "listing" /\ ds_pc = "raised" /\ ds_floor.valid) =>
        ds_err.at # "parse_date"

(***************************************************************************)
(* C31                                                                     *)
(***************************************************************************)
\* C31: in sec_download_file a timeout or connection failure, at the request
\* or while the body is streamed, is one failed attempt: the call raises
\* for it only as the error after retries, once ten attempts were made.
C31_NetworkFailureIsRetried ==
    (tr_op = "file" /\ tr_pc = "raised" /\ tr_err.at # "raise_for_status") =>
        /\ tr_err = Err(TransportFailureError, "after_retries", NoStatus)
        /\ tr_gets = 10

(***************************************************************************)
(* C32                                                                     *)
(***************************************************************************)
\* min(2^(k-1), 60)
C32_Base(k) == IF 2 ^ (k - 1) < 60 THEN 2 ^ (k - 1) ELSE 60

\* after the k-th failed attempt of a call the base slept is min(2^(k-1), 60)
C32_BaseOfLastSleep ==
    tr_op \in {"json", "text", "bytes", "file"} =>
        /\ tr_sleeps \in 0..10
        /\ tr_sleeps >= 1 => tr_slept = C32_Base(tr_sleeps)
        /\ tr_slept <= 60
        /\ tr_pc \in {"loop", "get"} => backoff = C32_Base(tr_sleeps + 1)

\* a sleep is the next one of the call, and a new call starts again at 1
C32_Step ==
    /\ tr_calls' = tr_calls =>
          \/ tr_sleeps' = tr_sleeps /\ tr_slept' = tr_slept
          \/ tr_sleeps' = tr_sleeps + 1 /\ tr_slept' = C32_Base(tr_sleeps + 1)
    /\ tr_calls' # tr_calls => tr_sleeps' = 0 /\ backoff' = 1

\* C32: in every transport operation the backoff base slept after the k-th
\* failed attempt of a call is min(2^(k-1), 60) seconds: 1, 2, 4, 8, 16, 32,
\* 60, 60, 60, 60; it starts again at 1 with every call and never exceeds 60.
C32_BackoffSchedule == []C32_BaseOfLastSleep /\ [][C32_Step]_vars

\* the seventh failed attempt of a call: the cap applies for the first time
C32_Witness ==
    /\ tr_sleeps = 7
    /\ tr_slept = 60
    /\ tr_pc = "loop"

\* the first failed attempt of a call that follows one which raised
C32_WitnessNewCall ==
    /\ tr_calls = 2
    /\ tr_prev = "raised"
    /\ tr_sleeps = 1
    /\ tr_slept = 1

(***************************************************************************)
(* C33                                                                     *)
(***************************************************************************)
\* the quarters from (start_year, Q1) through today's quarter
C33_Due ==
    { yq \in (ds_batches.start_year..ds_batches.end_year) \X (1..4) :
        yq[1] < ds_batches.end_year \/ yq[2] <= ds_batches.end_q }

C33_Ord(r) == r[1] * 4 + r[2]

\* the positions of the requests for plain files
C33_Plain == { i \in 1..Len(ds_requests) : ds_requests[i][3] = "master.idx" }

\* C33: the scan requests the plain index of every quarter from (start_year,
\* Q1) through the current quarter once, in chronological order, and of no
\* later quarter; the compressed index of a quarter is requested only right
\* after its plain index failed; a quarter of which neither can be had is
\* passed over and the later quarters are still scanned.
C33_EveryQuarterOnce ==
    (ds_op = "scan" /\ ds_pc = "scanned") =>
        /\ { <<ds_requests[i][1], ds_requests[i][2]>> : i \in C33_Plain }
              = C33_Due
        /\ Cardinality(C33_Plain) = Cardinality(C33_Due)
        /\ \A i, j \in 1..Len(ds_requests) :
              i < j => C33_Ord(ds_requests[i]) <= C33_Ord(ds_requests[j])
        /\ \A i \in 1..Len(ds_requests) :
              ds_requests[i][3] = "master.gz" =>
                  /\ i > 1
                  /\ ds_requests[i - 1] =
                        <<ds_requests[i][1], ds_requests[i][2], "master.idx">>
                  /\ Served(ds_batches.pattern, ds_requests[i][1],
                            ds_requests[i][2], "master.idx") = "fail"
        /\ \A i \in 1..Len(ds_refs) :
              /\ ds_refs[i] \in C33_Due
              /\ \E name \in {"master.idx", "master.gz"} :
                    Served(ds_batches.pattern, ds_refs[i][1], ds_refs[i][2],
                           name) = "ok"

\* a scan that ends in the second quarter of its second year went on after
\* a quarter of which neither file could be had
C33_Witness ==
    /\ ds_op = "scan"
    /\ ds_pc = "scanned"
    /\ ds_batches.pattern = "gaps"
    /\ ds_batches.end_year = ds_batches.start_year + 1
    /\ ds_batches.end_q = 2
    /\ ds_batches.start_year = start_year
    /\ Len(ds_requests) = 9
    /\ Len(ds_refs) = 2
    /\ ds_refs[2] = <<ds_batches.end_year, 1>>

(***************************************************************************)
(* C34                                                                     *)
(***************************************************************************)
\* a task that returned counts every name selected for its filing; while
\* it runs it has counted the names it is past
C34_CountIsNames ==
    \A i \in 1..Len(futs) :
        /\ futs[i].pc = "ok" => futs[i].count = Len(futs[i].names)
        /\ futs[i].pc = "docs" => futs[i].count = futs[i].idx - 1
        /\ futs[i].pc \in {"queued", "index", "html"} => futs[i].count = 0

\* a name is counted when the loop passes it, and a task whose selection is
\* empty, once drained, adds one to ok and nothing to failed
C34_Step ==
    \A i \in 1..Len(futs) :
        /\ (futs' # <<>> /\ futs[i].pc = "docs" /\ futs'[i].pc = "docs") =>
              futs'[i].count - futs[i].count = futs'[i].idx - futs[i].idx
        /\ (futs' # <<>> /\ futs'[i].drained /\ ~futs[i].drained
            /\ futs[i].pc = "ok") =>
              ok' = ok + 1 /\ failed' = failed

\* C34: download_filing returns the number of names selected for the filing,
\* each counted once whether its file was fetched, was already there or was
\* a 404; with no name selected it returns 0 and the filing counts as
\* succeeded.
C34_CountOfSelected == []C34_CountIsNames /\ [][C34_Step]_vars

\* two names, the second answered 404: the task returned 2
C34_Witness ==
    \E i \in 1..Len(futs) :
        /\ futs[i].pc = "ok"
        /\ Len(futs[i].names) = 2
        /\ futs[i].count = 2
        /\ futs[i].status = 404

\* two names whose files were already there: the task returned 2 without a
\* request for either
C34_WitnessExisting ==
    \E i \in 1..Len(futs) :
        /\ futs[i].pc = "ok"
        /\ Len(futs[i].names) = 2
        /\ futs[i].count = 2
        /\ futs[i].status = NoStatus

\* no name selected: the task returned 0 and was counted as ok
C34_WitnessEmpty ==
    \E i \in 1..Len(futs) :
        /\ futs[i].pc = "ok"
        /\ futs[i].names = <<>>
        /\ futs[i].count = 0
        /\ futs[i].drained
        /\ ok >= 1

(***************************************************************************)
(* C35                                                                     *)
(***************************************************************************)
\* C35: every reference a discovery strategy returns has a form of the
\* wanted set, {'8-K'} when amendments are excluded and {'8-K', '8-K/A'}
\* when they are included, whatever forms the rows served carry.
C35_FormsAreWanted ==
    ds_pc = "done" =>
        \A i \in 1..Len(ds_out) :
            ds_out[i].form \in RangeOf(Forms(ds_incl))


\* the two strategies that compare the form itself keep to the wanted set
C35_FilteredStrategies ==
    (ds_pc = "done" /\ ds_op \in {"submissions", "master"}) =>
        \A i \in 1..Len(ds_out) :
            ds_out[i].form \in RangeOf(Forms(ds_incl))

(***************************************************************************)
(* C36                                                                     *)
(***************************************************************************)
\* the accession numbers recorded in a targets manifest file
C36_Accessions(m) ==
    { m.lines[i].accession_no :
        i \in { j \in 1..Len(m.lines) :
                  /\ m.lines[j].kind = "object"
                  /\ m.lines[j].accession_no # NoAccession } }

\* no step of a run that loaded its targets from the manifest changes the
\* accession numbers the file records
C36_Step ==
    (cfg.source_mode = "master_index" /\ manifest_read) =>
        C36_Accessions(manifest') = C36_Accessions(manifest)

\* C36: a bulk-index run that reuses an existing targets manifest leaves the
\* set of accession numbers recorded in the manifest file unchanged, with or
\* without a shard spec.
C36_ReuseKeepsAccessions == [][C36_Step]_vars

\* the same, for the runs without a shard spec
C36_StepUnsharded ==
    (cfg.source_mode = "master_index" /\ manifest_read
     /\ cfg.shard = NoShard) =>
        C36_Accessions(manifest') = C36_Accessions(manifest)

C36_UnshardedReuseKeepsAccessions == [][C36_StepUnsharded]_vars


\* a run without a shard spec that read a manifest of two lines and wrote
\* the file again
C36_UnshardedReuseDone ==
    /\ cfg.source_mode = "master_index"
    /\ cfg.shard = NoShard
    /\ manifest_read
    /\ manifest_written
    /\ manifest.lines # <<>>

(***************************************************************************)
(* C37                                                                     *)
(***************************************************************************)
\* the tasks a worker is executing
C37_Executing == { i \in 1..Len(futs) : Running(i) }

\* the '.part' path task i has open for writing
C37_Open(i) == DocPath(futs[i].filing, futs[i].names[futs[i].idx])

\* C37: no two filing downloads that execute at the same time write to the
\* same destination path or to the same '.part' path, for every target
\* list, discovered afresh or replayed from a manifest.
C37_DisjointWrites ==
    \A i, j \in C37_Executing :
        (i # j /\ futs[i].writing /\ futs[j].writing) =>
            C37_Open(i) # C37_Open(j)

\* the same, for the target lists that were not read from a manifest
C37_DisjointWritesFresh ==
    ~manifest_read => C37_DisjointWrites

\* two tasks of a fresh target list are writing at the same time
C37_FreshConcurrentWrites ==
    /\ ~manifest_read
    /\ \E i, j \in C37_Executing :
          i # j /\ futs[i].writing /\ futs[j].writing


\* the loser of the race: its '.part' file was moved away under it
C37_ReplaceFailed ==
    \E i \in 1..Len(futs) :
        /\ futs[i].pc = "fail"
        /\ futs[i].err.cls = "FileNotFoundError"

(***************************************************************************)
(* C38                                                                     *)
(***************************************************************************)
\* the threads between 'now = time.monotonic()' and the stamp of _last
C38_Inside ==
    { t \in Threads : rl_pc[t] \in {"read", "sleep", "sleeping", "stamp",
                                    "release"} }

\* at most one thread is inside, and it is the one that holds the lock
C38_OneInside ==
    /\ Cardinality(C38_Inside) <= 1
    /\ \A t \in C38_Inside : rl_lock = t

\* a sleep that ends after the last instant of the clock of the model
C38_BeyondClock ==
    \E t \in Threads : rl_pc[t] = "sleeping" /\ rl_wake[t] > MaxClock

\* every call of wait() returns, as far as the clock of the model reaches
C38_Returns ==
    \A t \in Threads :
        (rl_pc[t] # "idle") ~> (rl_pc[t] = "idle" \/ C38_BeyondClock)

\* the same in one formula: the callers call MaxWaitCalls times at most, so
\* every call returns exactly when, from some moment on, no thread is inside
\* wait()
C38_AllReturned ==
    <>[]((\A t \in Threads : rl_pc[t] = "idle") \/ C38_BeyondClock)

\* C38: with the worker threads calling the limiter concurrently and a fair
\* lock, every wait() eventually returns, and at most one caller at a time
\* is inside the sleep-and-stamp section.
C38_ReturnsAndOneInside == []C38_OneInside /\ C38_AllReturned

\* two calls have returned, each after a sleep under the lock, and no
\* thread is left inside wait()
C38_Witness ==
    /\ Len(returns) = 2
    /\ rl_sleeps = 2
    /\ lock_takes = 2
    /\ \A t \in Threads : rl_pc[t] = "idle"
    /\ ~C38_BeyondClock

\* a thread waits for the lock while its holder sleeps
C38_WitnessContended ==
    \E t, u \in Threads :
        /\ rl_pc[t] = "acquire"
        /\ rl_pc[u] = "sleeping"
        /\ rl_lock = u

====
